---- MODULE Spec2Model ----
(***************************************************************************)
(* Forecast & seasonality allocation engine of the lego repository:        *)
(*   compute_seasonality_factors.py  (run-seasonality)                     *)
(*   compute_forecast.py             (run-forecast)                        *)
(*   compute_overstock.py            (run-overstock)                       *)
(* The database tables are the state; every committed statement group of   *)
(* a batch job is one action.                                              *)
(*                                                                         *)
(* Numbers.  Column values and Python floats are modelled as exact         *)
(* rationals <<n, d>> in lowest terms with d > 0.  SQL NULL / Python None   *)
(* is the pair <<0, 0>>.  IEEE-754 rounding of the float arithmetic and    *)
(* the scale of the DECIMAL columns are not represented.                   *)
(***************************************************************************)
EXTENDS Integers, Sequences, FiniteSets

\* ------------------------------------------------------------------------
\* Bounds of the model
\* ------------------------------------------------------------------------
NumAsins == 2
NumBrands == 2
NumSeasonalities == 2

Asins == 1..NumAsins
Brands == 1..NumBrands
Seasonalities == 1..NumSeasonalities

\* ------------------------------------------------------------------------
\* NULL and exact rational arithmetic
\* ------------------------------------------------------------------------
NULL == <<0, 0>>
NullId == 0

Abs(x) == IF x < 0 THEN -x ELSE x

RECURSIVE GCD(_, _)
GCD(a, b) == IF b = 0 THEN a ELSE GCD(b, a % b)

\* what a division by zero leaves behind: not a number.  Python raises
\* ZeroDivisionError on x / 0 and MySQL yields no number for it; every
\* operation on it yields it again.
DivByZero == <<1, 0>>

Rat(n, d) ==
  IF d = 0 THEN DivByZero
  ELSE IF n = 0 THEN <<0, 1>>
  ELSE LET g == GCD(Abs(n), Abs(d))
           s == IF d < 0 THEN -1 ELSE 1
       IN  <<(s * n) \div g, (s * d) \div g>>

Num(n) == <<n, 1>>
Zero == <<0, 1>>
One == <<1, 1>>

RAdd(x, y) == Rat(x[1] * y[2] + y[1] * x[2], x[2] * y[2])
RSub(x, y) == Rat(x[1] * y[2] - y[1] * x[2], x[2] * y[2])
RMul(x, y) == Rat(x[1] * y[1], x[2] * y[2])
RDiv(x, y) == Rat(x[1] * y[2], x[2] * y[1])
RPos(x) == x[1] > 0
RNeg(x) == x[1] < 0
RIsZero(x) == x[1] = 0
RGeq0(x) == x # NULL /\ x[1] >= 0

\* Python truthiness of a nullable numeric: None and 0 are falsy.
Truthy(x) == x # NULL /\ x[1] # 0
\* float(x or 0)
OrZero(x) == IF Truthy(x) THEN x ELSE Zero

RECURSIVE SeqSum(_)
SeqSum(s) == IF s = <<>> THEN Zero ELSE RAdd(Head(s), SeqSum(Tail(s)))

\* ------------------------------------------------------------------------
\* Tables with duplicate rows: a function from row to its number of copies
\* ------------------------------------------------------------------------
EmptyTable == [r \in {} |-> 0]
Copies(T, r) == IF r \in DOMAIN T THEN T[r] ELSE 0
\* INSERT of the distinct rows S, one copy each.
InsertRows(T, S) ==
  [r \in (DOMAIN T) \cup S |-> Copies(T, r) + (IF r \in S THEN 1 ELSE 0)]
\* What is left of T when the rows in S are deleted.
KeepRows(T, S) == [r \in (DOMAIN T) \ S |-> T[r]]
\* Number of rows of T among S, each copy counted.
RECURSIVE CountRows(_, _)
CountRows(T, S) ==
  IF S = {} THEN 0
  ELSE LET r == CHOOSE x \in S : TRUE
       IN  Copies(T, r) + CountRows(T, S \ {r})
\* SUM(value) over the rows of T among S, each copy counted.
RECURSIVE SumRows(_, _)
SumRows(T, S) ==
  IF S = {} THEN Zero
  ELSE LET r == CHOOSE x \in S : TRUE
       IN  RAdd(RMul(Num(Copies(T, r)), r.value), SumRows(T, S \ {r}))
\* SUM(value) over a set of rows with a key (no duplicates).
RECURSIVE SumSet(_)
SumSet(S) ==
  IF S = {} THEN Zero
  ELSE LET r == CHOOSE x \in S : TRUE
       IN  RAdd(r.value, SumSet(S \ {r}))

VARIABLES
  financials,      \* table financials: set of fact rows (id is the key)
  asin,            \* table asin: asin id -> row
  brand,           \* table brand: brand id -> row
  seasonality,     \* table seasonality (committed): id -> [1..12 -> value]
  forecast_asin,   \* table forecast_asin (committed)
  forecast_brand,  \* table forecast_brand (committed)
  season_pc,       \* run-seasonality: where the process is
  season_idx,      \* run-seasonality: groups already processed in the loop
  season_txn,      \* run-seasonality: the open transaction's view of seasonality
  fc_pc,           \* run-forecast: where the process is
  fc_filter,       \* run-forecast: --asin argument (NullId = all ASINs)
  os_pc,           \* run-overstock: where the process is
  os_mode,         \* run-overstock: "both", "asins_only", "brands_only"
  last_fc_rollup,  \* history: the last brand forecast rollup, its input
                   \*   (forecast_asin) and its output (forecast_brand)
  last_os_rollup,  \* history: the last brand overstock rollup, its input
                   \*   (the asin overstock columns) and its output (brand)
  collation,       \* collation of the metric columns: "ci" or "cs"
  summary_asin,    \* table financials_summary_monthly_asin_marketplace
  summary_brand,   \* table financials_summary_monthly_brand
  stock,           \* table stock: set of rows (id is the key)
  ltm_pc,          \* run-trailing-metrics: where the process is
  ltm_mode,        \* run-trailing-metrics: its arguments
  ltm_idx,         \* run-trailing-metrics: rows already processed in the loop
  ltm_errors,      \* run-trailing-metrics: the errors list of the stage
  ltm_txn,         \* run-trailing-metrics: the open transaction's view of
                   \*   asin and brand
  ltm_exit,        \* run-trailing-metrics: exit status of the last run
  fc_exit,         \* run-forecast: exit status of the last run
  os_exit,         \* run-overstock: exit status of the last run
  fc_before,       \* history: the forecast tables when the current
                   \*   run-forecast started
  fc_interrupted   \* history: the run-forecast that stopped between its
                   \*   delete and its insert, until the next run ends

\* the state of run-trailing-metrics and of the tables only it reads
ltmVars == <<collation, summary_asin, summary_brand, stock, ltm_pc, ltm_mode,
             ltm_idx, ltm_errors, ltm_txn, ltm_exit>>
\* exit statuses and run-forecast history
runVars == <<fc_exit, os_exit, fc_before, fc_interrupted>>

vars == <<financials, asin, brand, seasonality, forecast_asin, forecast_brand,
          season_pc, season_idx, season_txn, fc_pc, fc_filter, os_pc, os_mode,
          last_fc_rollup, last_os_rollup, ltmVars, runVars>>

\* ------------------------------------------------------------------------
\* Program constants
\* ------------------------------------------------------------------------
Months == 1..12
RefYear == 2024

\* LOWER(metric) on the metric labels that occur in the data
Lower(s) ==
  CASE s \in {"Net units", "NET UNITS", "net units"} -> "net units"
    [] s \in {"Net revenue", "NET REVENUE", "net revenue"} -> "net revenue"
    [] s \in {"CM3", "Cm3", "cm3"} -> "cm3"
    [] OTHER -> s

NullCurve == [m \in Months |-> NULL]

\* ------------------------------------------------------------------------
\* run-seasonality (compute_seasonality_factors.py)
\* ------------------------------------------------------------------------
SeasonFactsAnyEol(name) ==
  {f \in financials :
      /\ asin[f.asin_id].seasonality = name
      /\ Lower(f.metric) = "net units"
      /\ f.year = RefYear}
\* The rows the monthly query reads for the seasonality named `name`
\* (the name of seasonality row g is modelled by its id).
SeasonFacts(name) ==
  {f \in financials :
      /\ asin[f.asin_id].seasonality = name
      /\ Lower(f.metric) = "net units"
      /\ f.year = RefYear
      /\ (asin[f.asin_id].eol = NULL \/ asin[f.asin_id].eol = Zero)}

\* monthly_units, filled from the GROUP BY MONTH(f.month) rows; a month with
\* no row, or whose SUM is 0, is 0.0
MonthlyUnits(name) ==
  [m \in Months |->
     LET rows == {f \in SeasonFacts(name) : f.mon = m}
     IN  IF rows = {} THEN Zero ELSE OrZero(SumSet(rows))]

TotalUnits(mu) == SeqSum(mu)

FactorsNoNormalize(mu, total) == [m \in Months |-> mu[m]]
\* factors = [units / total_units for units in monthly_units]
Factors(mu, total) == [m \in Months |-> RDiv(mu[m], total)]

SeasonStart ==
  /\ season_pc = "idle" /\ fc_pc = "idle" /\ os_pc = "idle"
  /\ season_pc' = "loop"
  /\ season_idx' = 0
  /\ season_txn' = seasonality
  /\ UNCHANGED <<ltmVars, runVars,
                 financials, asin, brand, seasonality, forecast_asin,
                 forecast_brand, fc_pc, fc_filter, os_pc, os_mode,
                 last_fc_rollup, last_os_rollup>>

SeasonGroupHalfRow ==
  /\ season_pc = "loop"
  /\ season_idx < NumSeasonalities
  /\ LET g == season_idx + 1
         mu == MonthlyUnits(g)
         total == TotalUnits(mu)
     IN  season_txn' =
           IF RIsZero(total) THEN season_txn
           ELSE [season_txn EXCEPT ![g] =
                   [m \in Months |-> IF m <= 6 THEN Factors(mu, total)[m]
                                     ELSE season_txn[g][m]]]
  /\ season_idx' = season_idx + 1
  /\ UNCHANGED <<ltmVars, runVars,
                 financials, asin, brand, seasonality, forecast_asin,
                 forecast_brand, season_pc, fc_pc, fc_filter, os_pc, os_mode,
                 last_fc_rollup, last_os_rollup>>
SeasonGroupZeroing ==
  /\ season_pc = "loop"
  /\ season_idx < NumSeasonalities
  /\ LET g == season_idx + 1
         mu == MonthlyUnits(g)
         total == TotalUnits(mu)
     IN  season_txn' =
           IF RIsZero(total)
           THEN [season_txn EXCEPT ![g] = [m \in Months |-> Zero]]
           ELSE [season_txn EXCEPT ![g] = Factors(mu, total)]
  /\ season_idx' = season_idx + 1
  /\ UNCHANGED <<ltmVars, runVars,
                 financials, asin, brand, seasonality, forecast_asin,
                 forecast_brand, season_pc, fc_pc, fc_filter, os_pc, os_mode,
                 last_fc_rollup, last_os_rollup>>
\* One iteration of `for seasonality in seasonalities` (ORDER BY name).
SeasonGroup ==
  /\ season_pc = "loop"
  /\ season_idx < NumSeasonalities
  /\ LET g == season_idx + 1
         mu == MonthlyUnits(g)
         total == TotalUnits(mu)
     IN  season_txn' =
           IF RIsZero(total) THEN season_txn
           ELSE [season_txn EXCEPT ![g] = Factors(mu, total)]
  /\ season_idx' = season_idx + 1
  /\ UNCHANGED <<ltmVars, runVars,
                 financials, asin, brand, seasonality, forecast_asin,
                 forecast_brand, season_pc, fc_pc, fc_filter, os_pc, os_mode,
                 last_fc_rollup, last_os_rollup>>

\* conn.commit() after the loop
SeasonCommit ==
  /\ season_pc = "loop"
  /\ season_idx = NumSeasonalities
  /\ seasonality' = season_txn
  /\ season_pc' = "done"
  /\ UNCHANGED <<ltmVars, runVars,
                 financials, asin, brand, forecast_asin, forecast_brand,
                 season_idx, season_txn, fc_pc, fc_filter, os_pc, os_mode,
                 last_fc_rollup, last_os_rollup>>

\* the process exits with status 0 (its connection goes with it)
SeasonExit ==
  /\ season_pc = "done"
  /\ season_pc' = "idle"
  /\ season_idx' = 0
  /\ season_txn' = seasonality
  /\ UNCHANGED <<ltmVars, runVars,
                 financials, asin, brand, seasonality, forecast_asin,
                 forecast_brand, fc_pc, fc_filter,
                 os_pc, os_mode, last_fc_rollup, last_os_rollup>>

\* db_utils.flush_financials: DELETE FROM financials, committed
FlushFinancials ==
  /\ season_pc = "idle" /\ fc_pc = "idle" /\ os_pc = "idle"
  /\ financials # {}
  /\ financials' = {}
  /\ UNCHANGED <<ltmVars, runVars,
                 asin, brand, seasonality, forecast_asin, forecast_brand,
                 season_pc, season_idx, season_txn, fc_pc, fc_filter, os_pc,
                 os_mode, last_fc_rollup, last_os_rollup>>

\* history values: no run-forecast in progress, none interrupted
NoBefore == [asin |-> EmptyTable, brand |-> EmptyTable]
NoInterrupt == [valid |-> FALSE, filter |-> NullId, before |-> EmptyTable]

\* ------------------------------------------------------------------------
\* run-forecast (compute_forecast.py)
\* ------------------------------------------------------------------------
ForecastMonthsNovemberTwice ==
  << <<202511, 11>>, <<202512, 12>>, <<202601, 1>>, <<202602, 2>>,
     <<202603, 3>>,  <<202604, 4>>,  <<202605, 5>>, <<202606, 6>>,
     <<202607, 7>>,  <<202608, 8>>,  <<202609, 9>>, <<202610, 11>> >>
\* forecast_months: <<month date (yyyymm), calendar month number>>
ForecastMonths ==
  << <<202511, 11>>, <<202512, 12>>, <<202601, 1>>, <<202602, 2>>,
     <<202603, 3>>,  <<202604, 4>>,  <<202605, 5>>, <<202606, 6>>,
     <<202607, 7>>,  <<202608, 8>>,  <<202609, 9>>, <<202610, 10>> >>

FcRow(a, metric, month, value) ==
  [asin_id |-> a, metric |-> metric, month |-> month, value |-> value]

\* s.unit_XX of the row LEFT JOINed on a.seasonality_id = s.id
JoinedUnit(a, m) ==
  IF asin[a].seasonality_id \in Seasonalities
  THEN seasonality[asin[a].seasonality_id][m]
  ELSE NULL

\* the two zero records appended per forecast month in cases 1 and 2
ZeroRecords(a) ==
  UNION {{FcRow(a, "Net units", ForecastMonths[i][1], Zero),
          FcRow(a, "Net revenue", ForecastMonths[i][1], Zero)} :
         i \in DOMAIN ForecastMonths}

\* base_period_sum = float(unit_08 or 0) + float(unit_09 or 0) + float(unit_10 or 0)
BasePeriodSum(a) ==
  RAdd(RAdd(OrZero(JoinedUnit(a, 8)), OrZero(JoinedUnit(a, 9))),
       OrZero(JoinedUnit(a, 10)))

\* total_next_12_months = l3m_units / base_period_sum
TotalNext12Months(a) == RDiv(OrZero(asin[a].l3m_units), BasePeriodSum(a))

AspLtmFirst(a) ==
  IF RPos(OrZero(asin[a].ltm_units))
  THEN RDiv(OrZero(asin[a].ltm_revenues), OrZero(asin[a].ltm_units))
  ELSE IF RPos(OrZero(asin[a].l3m_units))
  THEN RDiv(OrZero(asin[a].l3m_revenues), OrZero(asin[a].l3m_units))
  ELSE Zero
\* asp: l3m_revenues / l3m_units, else ltm_revenues / ltm_units, else 0
Asp(a) ==
  IF RPos(OrZero(asin[a].l3m_units))
  THEN RDiv(OrZero(asin[a].l3m_revenues), OrZero(asin[a].l3m_units))
  ELSE IF RPos(OrZero(asin[a].ltm_units))
  THEN RDiv(OrZero(asin[a].ltm_revenues), OrZero(asin[a].ltm_units))
  ELSE Zero

ForecastedUnitsShifted(a, month_num) ==
  RMul(OrZero(JoinedUnit(a, (month_num % 12) + 1)), TotalNext12Months(a))
\* forecasted_units = seasonality_factor * total_next_12_months
ForecastedUnits(a, month_num) ==
  RMul(OrZero(JoinedUnit(a, month_num)), TotalNext12Months(a))

\* case 3: the records of an active ASIN with a seasonality
ActiveRecords(a) ==
  UNION {{FcRow(a, "Net units", ForecastMonths[i][1],
                ForecastedUnits(a, ForecastMonths[i][2])),
          FcRow(a, "Net revenue", ForecastMonths[i][1],
                RMul(ForecastedUnits(a, ForecastMonths[i][2]), Asp(a)))} :
         i \in DOMAIN ForecastMonths}

IsEol(a) == asin[a].eol = One
NoSeasonality(a) ==
  asin[a].seasonality_id = NullId \/ ~Truthy(JoinedUnit(a, 8))

AsinRecordsNoBaseSumTest(a) ==
  IF IsEol(a) THEN ZeroRecords(a)
  ELSE IF NoSeasonality(a) THEN ZeroRecords(a)
  ELSE ActiveRecords(a)
AsinRecordsNoEol(a) ==
  IF NoSeasonality(a) THEN ZeroRecords(a)
  ELSE IF RIsZero(BasePeriodSum(a)) THEN ZeroRecords(a)
  ELSE ActiveRecords(a)
AsinRecordsNoUnit08Test(a) ==
  IF IsEol(a) THEN ZeroRecords(a)
  ELSE IF asin[a].seasonality_id = NullId THEN ZeroRecords(a)
  ELSE IF RIsZero(BasePeriodSum(a)) THEN ZeroRecords(a)
  ELSE ActiveRecords(a)
\* the body of `for asin in asins`: the records of one ASIN
AsinRecords(a) ==
  IF IsEol(a) THEN ZeroRecords(a)
  ELSE IF NoSeasonality(a) THEN ZeroRecords(a)
  ELSE IF RIsZero(BasePeriodSum(a)) THEN ZeroRecords(a)
  ELSE ActiveRecords(a)

SelectedAsinsAnyBrand(filter) ==
  {a \in Asins : filter = NullId \/ a = filter}
\* the ASIN query: WHERE a.brand_id IS NOT NULL [AND a.asin = %s]
SelectedAsins(filter) ==
  {a \in Asins : asin[a].brand_id # NullId /\ (filter = NullId \/ a = filter)}

\* forecast_records of the whole loop
ForecastRecords(filter) == UNION {AsinRecords(a) : a \in SelectedAsins(filter)}

FcAsinDeleteSkipped ==
  /\ season_pc = "idle" /\ fc_pc = "idle" /\ os_pc = "idle"
  /\ \E filter \in {NullId} \cup Asins :
       /\ fc_filter' = filter
       /\ fc_interrupted' = IF fc_interrupted.filter = filter
                            THEN fc_interrupted ELSE NoInterrupt
  /\ fc_pc' = "asin_deleted"
  /\ fc_exit' = -1
  /\ fc_before' = [asin |-> forecast_asin, brand |-> forecast_brand]
  /\ UNCHANGED <<ltmVars, os_exit,
                 financials, asin, brand, seasonality, forecast_asin,
                 forecast_brand, season_pc, season_idx, season_txn, os_pc,
                 os_mode, last_fc_rollup, last_os_rollup>>
\* DELETE FROM forecast_asin [WHERE asin_id IN (...)]; conn.commit()
\* (the first statement of compute_asin_forecasts, from main)
FcAsinDelete ==
  /\ season_pc = "idle" /\ fc_pc = "idle" /\ os_pc = "idle"
  /\ \E filter \in {NullId} \cup Asins :
       /\ fc_filter' = filter
       /\ fc_interrupted' = IF fc_interrupted.filter = filter
                            THEN fc_interrupted ELSE NoInterrupt
       /\ forecast_asin' =
            KeepRows(forecast_asin,
                     {r \in DOMAIN forecast_asin :
                        filter = NullId \/ r.asin_id = filter})
  /\ fc_pc' = "asin_deleted"
  /\ fc_exit' = -1
  /\ fc_before' = [asin |-> forecast_asin, brand |-> forecast_brand]
  /\ UNCHANGED <<ltmVars, os_exit,
                 financials, asin, brand, seasonality, forecast_brand,
                 season_pc, season_idx, season_txn, os_pc, os_mode,
                 last_fc_rollup, last_os_rollup>>

\* the ASIN query, the loop and the batch INSERT; conn.commit()
FcAsinInsert ==
  /\ fc_pc = "asin_deleted"
  /\ forecast_asin' = InsertRows(forecast_asin, ForecastRecords(fc_filter))
  /\ fc_pc' = "asin_done"
  /\ UNCHANGED <<ltmVars, runVars,
                 financials, asin, brand, seasonality, forecast_brand,
                 season_pc, season_idx, season_txn, fc_filter, os_pc, os_mode,
                 last_fc_rollup, last_os_rollup>>

FcBrandSkipRollsUp ==
  /\ fc_pc = "asin_done"
  /\ fc_filter # NullId
  /\ forecast_brand' =
       InsertRows(EmptyTable,
                  {[brand_id |-> asin[r.asin_id].brand_id, metric |-> r.metric,
                    month |-> r.month, value |-> r.value] :
                     r \in DOMAIN forecast_asin})
  /\ fc_pc' = "done"
  /\ UNCHANGED <<ltmVars, runVars,
                 financials, asin, brand, seasonality, forecast_asin,
                 season_pc, season_idx, season_txn, fc_filter,
                 os_pc, os_mode, last_fc_rollup, last_os_rollup>>
\* compute_brand_forecasts(skip_if_single_asin=True): returns at once
FcBrandSkip ==
  /\ fc_pc = "asin_done"
  /\ fc_filter # NullId
  /\ fc_pc' = "done"
  /\ UNCHANGED <<ltmVars, runVars,
                 financials, asin, brand, seasonality, forecast_asin,
                 forecast_brand, season_pc, season_idx, season_txn, fc_filter,
                 os_pc, os_mode, last_fc_rollup, last_os_rollup>>

FcBrandDeleteSkipped ==
  /\ fc_pc = "asin_done"
  /\ fc_filter = NullId
  /\ fc_pc' = "brand_deleted"
  /\ UNCHANGED <<ltmVars, runVars,
                 financials, asin, brand, seasonality, forecast_asin,
                 forecast_brand, season_pc, season_idx, season_txn, fc_filter,
                 os_pc, os_mode, last_fc_rollup, last_os_rollup>>
\* DELETE FROM forecast_brand; conn.commit()
FcBrandDelete ==
  /\ fc_pc = "asin_done"
  /\ fc_filter = NullId
  /\ forecast_brand' = EmptyTable
  /\ fc_pc' = "brand_deleted"
  /\ UNCHANGED <<ltmVars, runVars,
                 financials, asin, brand, seasonality, forecast_asin,
                 season_pc, season_idx, season_txn, fc_filter, os_pc, os_mode,
                 last_fc_rollup, last_os_rollup>>

BrandRow(b, metric, month, value) ==
  [brand_id |-> b, metric |-> metric, month |-> month, value |-> value]

\* the rows of forecast_asin in one group of GROUP BY a.brand_id, fa.metric,
\* fa.month (INNER JOIN asin, WHERE a.brand_id IS NOT NULL)
GroupRows(b, metric, month) ==
  {r \in DOMAIN forecast_asin :
     /\ asin[r.asin_id].brand_id = b
     /\ r.metric = metric
     /\ r.month = month}

BrandForecastRowsFirstOnly ==
  {BrandRow(asin[r.asin_id].brand_id, r.metric, r.month, r.value) :
     r \in {x \in DOMAIN forecast_asin : asin[x.asin_id].brand_id # NullId}}
\* the SELECT of the INSERT INTO forecast_brand
BrandForecastRows ==
  {BrandRow(asin[r.asin_id].brand_id, r.metric, r.month,
            SumRows(forecast_asin,
                    GroupRows(asin[r.asin_id].brand_id, r.metric, r.month))) :
     r \in {x \in DOMAIN forecast_asin : asin[x.asin_id].brand_id # NullId}}

\* forecast_brand after INSERT INTO forecast_brand ... SELECT
BrandRollupResult == InsertRows(forecast_brand, BrandForecastRows)

\* INSERT INTO forecast_brand ... SELECT ...; conn.commit()
FcBrandInsert ==
  /\ fc_pc = "brand_deleted"
  /\ forecast_brand' = BrandRollupResult
  /\ fc_pc' = "done"
  /\ last_fc_rollup' =
       [valid |-> TRUE,
        repeated |-> last_fc_rollup.valid
                       /\ last_fc_rollup.children = forecast_asin,
        children |-> forecast_asin,
        out |-> forecast_brand']
  /\ UNCHANGED <<ltmVars, runVars,
                 financials, asin, brand, seasonality, forecast_asin,
                 season_pc, season_idx, season_txn, fc_filter, os_pc, os_mode,
                 last_os_rollup>>

\* An exception inside compute_asin_forecasts (its except block: rollback,
\* re-raise), before the DELETE is committed or after it and before the
\* INSERT is committed.  The rollback undoes nothing that was committed.
FcAsinFail ==
  /\ \/ /\ season_pc = "idle" /\ fc_pc = "idle" /\ os_pc = "idle"
        /\ \E filter \in {NullId} \cup Asins : fc_filter' = filter
        /\ fc_exit' = -1
        /\ fc_before' = [asin |-> forecast_asin, brand |-> forecast_brand]
        /\ UNCHANGED fc_interrupted
     \/ /\ fc_pc = "asin_deleted"
        /\ fc_interrupted' =
             [valid |-> TRUE, filter |-> fc_filter,
              before |-> IF fc_interrupted.valid THEN fc_interrupted.before
                         ELSE fc_before.asin]
        /\ UNCHANGED <<fc_filter, fc_exit, fc_before>>
  /\ fc_pc' = "asin_failed"
  /\ UNCHANGED <<ltmVars, os_exit,
                 financials, asin, brand, seasonality, forecast_asin,
                 forecast_brand, season_pc, season_idx, season_txn,
                 os_pc, os_mode, last_fc_rollup, last_os_rollup>>

\* An exception inside compute_brand_forecasts (rollback, re-raise), before
\* its DELETE is committed or after it and before the INSERT is committed.
FcBrandFail ==
  /\ \/ fc_pc = "asin_done" /\ fc_filter = NullId
     \/ fc_pc = "brand_deleted"
  /\ fc_pc' = "brand_failed"
  /\ UNCHANGED <<ltmVars, runVars,
                 financials, asin, brand, seasonality, forecast_asin,
                 forecast_brand, season_pc, season_idx, season_txn, fc_filter,
                 os_pc, os_mode, last_fc_rollup, last_os_rollup>>

FcFatalContinues ==
  /\ fc_pc \in {"asin_failed", "brand_failed"}
  /\ fc_pc' = IF fc_pc = "asin_failed" THEN "asin_done" ELSE "done"
  /\ UNCHANGED <<ltmVars, runVars,
                 financials, asin, brand, seasonality, forecast_asin,
                 forecast_brand, season_pc, season_idx, season_txn, fc_filter,
                 os_pc, os_mode, last_fc_rollup, last_os_rollup>>
\* main's except block: the exception of either stage ends the run,
\* sys.exit(1); nothing after the failing call is executed
FcFatal ==
  /\ fc_pc \in {"asin_failed", "brand_failed"}
  /\ fc_pc' = "idle"
  /\ fc_filter' = NullId
  /\ fc_exit' = 1
  /\ fc_before' = NoBefore
  /\ fc_interrupted' =
       IF fc_pc = "asin_failed" THEN fc_interrupted ELSE NoInterrupt
  /\ UNCHANGED <<ltmVars, os_exit,
                 financials, asin, brand, seasonality, forecast_asin,
                 forecast_brand, season_pc, season_idx, season_txn,
                 os_pc, os_mode, last_fc_rollup, last_os_rollup>>

FcCrashRestores ==
  /\ fc_pc \in {"asin_deleted", "asin_done", "brand_deleted"}
  /\ fc_pc' = "idle"
  /\ fc_filter' = NullId
  /\ fc_exit' = 1
  /\ fc_before' = NoBefore
  /\ fc_interrupted' = NoInterrupt
  /\ forecast_asin' = IF fc_pc = "asin_deleted" THEN fc_before.asin
                      ELSE forecast_asin
  /\ UNCHANGED <<ltmVars, os_exit,
                 financials, asin, brand, seasonality,
                 forecast_brand, season_pc, season_idx, season_txn,
                 os_pc, os_mode, last_fc_rollup, last_os_rollup>>
\* The process is killed while it runs: no handler runs, the server rolls
\* back what was not committed, the exit status is not 0.
FcCrash ==
  /\ fc_pc \in {"asin_deleted", "asin_done", "brand_deleted"}
  /\ fc_pc' = "idle"
  /\ fc_filter' = NullId
  /\ fc_exit' = 1
  /\ fc_before' = NoBefore
  /\ fc_interrupted' =
       IF fc_pc = "asin_deleted"
       THEN [valid |-> TRUE, filter |-> fc_filter,
             before |-> IF fc_interrupted.valid THEN fc_interrupted.before
                        ELSE fc_before.asin]
       ELSE NoInterrupt
  /\ UNCHANGED <<ltmVars, os_exit,
                 financials, asin, brand, seasonality, forecast_asin,
                 forecast_brand, season_pc, season_idx, season_txn,
                 os_pc, os_mode, last_fc_rollup, last_os_rollup>>

\* main returns; the process exits with status 0 (its arguments go with it)
FcExit ==
  /\ fc_pc = "done"
  /\ fc_pc' = "idle"
  /\ fc_filter' = NullId
  /\ fc_exit' = 0
  /\ fc_before' = NoBefore
  /\ fc_interrupted' = NoInterrupt
  /\ UNCHANGED <<ltmVars, os_exit,
                 financials, asin, brand, seasonality, forecast_asin,
                 forecast_brand, season_pc, season_idx, season_txn,
                 os_pc, os_mode, last_fc_rollup, last_os_rollup>>

\* ------------------------------------------------------------------------
\* run-overstock (compute_overstock.py)
\* ------------------------------------------------------------------------
\* month IN ('2025-11-01', ..., '2026-04-01')
OverstockMonths == {202511, 202512, 202601, 202602, 202603, 202604}

\* the subquery f: rows of forecast_asin summed per asin_id
Forecast6mRows(a) ==
  {r \in DOMAIN forecast_asin :
     /\ r.asin_id = a
     /\ r.metric = "Net units"
     /\ r.month \in OverstockMonths}

\* a.stock_units - COALESCE(f.forecast_6m_units, 0); the LEFT JOIN gives
\* NULL when the ASIN has no such row
StockMinusForecast(a) ==
  RSub(asin[a].stock_units,
       IF Forecast6mRows(a) = {} THEN Zero
       ELSE SumRows(forecast_asin, Forecast6mRows(a)))

OverstockUnitNoFloor(a) == StockMinusForecast(a)
\* GREATEST(0, a.stock_units - COALESCE(f.forecast_6m_units, 0))
OverstockUnit(a) ==
  IF RPos(StockMinusForecast(a)) THEN StockMinusForecast(a) ELSE Zero

OverstockValueNoGuard(a) ==
  IF RIsZero(asin[a].stock_units) THEN Zero
  ELSE RMul(StockMinusForecast(a),
            RDiv(asin[a].stock_value, asin[a].stock_units))
\* CASE WHEN a.stock_units > 0 AND a.stock_value > 0 AND (...) > 0
\*      THEN (...) * (a.stock_value / a.stock_units) ELSE 0 END
OverstockValue(a) ==
  IF /\ RPos(asin[a].stock_units)
     /\ RPos(asin[a].stock_value)
     /\ RPos(StockMinusForecast(a))
  THEN RMul(StockMinusForecast(a),
            RDiv(asin[a].stock_value, asin[a].stock_units))
  ELSE Zero

OverstockChildren ==
  [a \in Asins |-> <<asin[a].brand_id, asin[a].stock_overstock_unit,
                     asin[a].stock_overstock_value>>]

\* the rows of the statistics query: FROM asin WHERE brand_id IS NOT NULL
StatsAsins == {a \in Asins : asin[a].brand_id # NullId}

\* compute_asin_overstock: UPDATE asin ... WHERE a.brand_id IS NOT NULL;
\* conn.commit(); then the statistics query and its prints, which succeed
\* when the query has rows.  First call of main unless --brands-only.
OsAsinStage ==
  /\ season_pc = "idle" /\ fc_pc = "idle" /\ os_pc = "idle"
  /\ StatsAsins # {}
  /\ \E mode \in {"both", "asins_only"} :
       /\ os_mode' = mode
       /\ os_pc' = IF mode = "both" THEN "asin_done" ELSE "done"
  /\ asin' = [a \in Asins |->
                IF asin[a].brand_id # NullId
                THEN [asin[a] EXCEPT !.stock_overstock_unit = OverstockUnit(a),
                                     !.stock_overstock_value = OverstockValue(a)]
                ELSE asin[a]]
  /\ os_exit' = -1
  /\ UNCHANGED <<ltmVars, fc_exit, fc_before, fc_interrupted,
                 financials, brand, seasonality, forecast_asin, forecast_brand,
                 season_pc, season_idx, season_txn, fc_pc, fc_filter,
                 last_fc_rollup, last_os_rollup>>

\* An exception inside compute_asin_overstock (rollback, re-raise): before
\* the UPDATE is committed, or after it (the statistics query and prints).
OsAsinFail ==
  /\ season_pc = "idle" /\ fc_pc = "idle" /\ os_pc = "idle"
  /\ \E mode \in {"both", "asins_only"} : os_mode' = mode
  /\ \/ asin' = asin
     \/ asin' = [a \in Asins |->
                   IF asin[a].brand_id # NullId
                   THEN [asin[a] EXCEPT
                           !.stock_overstock_unit = OverstockUnit(a),
                           !.stock_overstock_value = OverstockValue(a)]
                   ELSE asin[a]]
  /\ os_pc' = "asin_failed"
  /\ os_exit' = -1
  /\ UNCHANGED <<ltmVars, fc_exit, fc_before, fc_interrupted,
                 financials, brand, seasonality, forecast_asin, forecast_brand,
                 season_pc, season_idx, season_txn, fc_pc, fc_filter,
                 last_fc_rollup, last_os_rollup>>

\* compute_asin_overstock when no ASIN has a brand: the UPDATE matches no
\* row and is committed; SUM(stock_overstock_value) over no row is NULL,
\* and formatting None with ':,.2f' raises TypeError (rollback, re-raise)
OsAsinStatsFail ==
  /\ season_pc = "idle" /\ fc_pc = "idle" /\ os_pc = "idle"
  /\ StatsAsins = {}
  /\ \E mode \in {"both", "asins_only"} : os_mode' = mode
  /\ os_pc' = "asin_failed"
  /\ os_exit' = -1
  /\ UNCHANGED <<ltmVars, fc_exit, fc_before, fc_interrupted,
                 financials, asin, brand, seasonality, forecast_asin,
                 forecast_brand, season_pc, season_idx, season_txn, fc_pc,
                 fc_filter, last_fc_rollup, last_os_rollup>>

\* main's except block: sys.exit(1); compute_brand_overstock is not called
OsFatal ==
  /\ os_pc = "asin_failed"
  /\ os_pc' = "idle"
  /\ os_mode' = "both"
  /\ os_exit' = 1
  /\ UNCHANGED <<ltmVars, fc_exit, fc_before, fc_interrupted,
                 financials, asin, brand, seasonality, forecast_asin,
                 forecast_brand, season_pc, season_idx, season_txn, fc_pc,
                 fc_filter, last_fc_rollup, last_os_rollup>>

\* the subquery agg of one brand: its ASINs
BrandAsins(b) == {a \in Asins : asin[a].brand_id = b}

RECURSIVE SumOver(_, _)
SumOver(S, f) ==
  IF S = {} THEN Zero
  ELSE LET a == CHOOSE x \in S : TRUE
       IN  RAdd(f[a], SumOver(S \ {a}, f))

BrandOverstockAccumulate(b) ==
  [brand[b] EXCEPT
     !.stock_overstock_unit =
        RAdd(brand[b].stock_overstock_unit,
             SumOver(BrandAsins(b),
                     [a \in Asins |-> asin[a].stock_overstock_unit])),
     !.stock_overstock_value =
        RAdd(brand[b].stock_overstock_value,
             SumOver(BrandAsins(b),
                     [a \in Asins |-> asin[a].stock_overstock_value]))]
\* SET b.stock_overstock_unit = COALESCE(agg.total_overstock_units, 0),
\*     b.stock_overstock_value = COALESCE(agg.total_overstock_value, 0)
BrandOverstock(b) ==
  [brand[b] EXCEPT
     !.stock_overstock_unit =
        IF BrandAsins(b) = {} THEN Zero
        ELSE SumOver(BrandAsins(b),
                     [a \in Asins |-> asin[a].stock_overstock_unit]),
     !.stock_overstock_value =
        IF BrandAsins(b) = {} THEN Zero
        ELSE SumOver(BrandAsins(b),
                     [a \in Asins |-> asin[a].stock_overstock_value])]

\* compute_brand_overstock: UPDATE brand ...; conn.commit().  Called by main
\* alone with --brands-only, after the ASIN stage by default.
OsBrandStage ==
  /\ \/ /\ season_pc = "idle" /\ fc_pc = "idle" /\ os_pc = "idle"
        /\ os_mode' = "brands_only"
        /\ os_exit' = -1
     \/ /\ os_pc = "asin_done"
        /\ os_mode' = os_mode
        /\ os_exit' = os_exit
  /\ brand' = [b \in Brands |-> BrandOverstock(b)]
  /\ os_pc' = "done"
  /\ last_os_rollup' =
       [valid |-> TRUE,
        repeated |-> last_os_rollup.valid
                       /\ last_os_rollup.children = OverstockChildren,
        children |-> OverstockChildren,
        out |-> brand']
  /\ UNCHANGED <<ltmVars, fc_exit, fc_before, fc_interrupted,
                 financials, asin, seasonality, forecast_asin, forecast_brand,
                 season_pc, season_idx, season_txn, fc_pc, fc_filter,
                 last_fc_rollup>>

\* main returns; the process exits with status 0 (its arguments go with it)
OsExit ==
  /\ os_pc = "done"
  /\ os_pc' = "idle"
  /\ os_mode' = "both"
  /\ os_exit' = 0
  /\ UNCHANGED <<ltmVars, fc_exit, fc_before, fc_interrupted,
                 financials, asin, brand, seasonality, forecast_asin,
                 forecast_brand, season_pc, season_idx, season_txn, fc_pc,
                 fc_filter, last_fc_rollup, last_os_rollup>>

\* ------------------------------------------------------------------------
\* Initial databases
\* ------------------------------------------------------------------------
AsinRow(brand_id, seas, eol, l3m, ltm, stk) ==
  [brand_id |-> brand_id,
   seasonality |-> seas,
   seasonality_id |-> seas,
   eol |-> eol,
   l3m_units |-> l3m[1], l3m_revenues |-> l3m[2],
   ltm_units |-> ltm[1], ltm_revenues |-> ltm[2],
   stock_units |-> stk[1], stock_value |-> stk[2],
   stock_overstock_unit |-> Zero,
   stock_overstock_value |-> Zero,
   ltm_cm3 |-> NULL, ltm_brand_ebitda |-> NULL]

\* group "" stands for a brand whose group is NULL
BrandRow0 ==
  [group |-> "",
   ltm_revenues |-> NULL, ltm_cm3 |-> NULL, ltm_brand_ebitda |-> NULL,
   stock_value |-> NULL,
   stock_overstock_unit |-> Zero, stock_overstock_value |-> Zero]

\* valid: a rollup has run; repeated: the one before it had the same input
NoRollup ==
  [valid |-> FALSE, repeated |-> FALSE, children |-> EmptyTable,
   out |-> EmptyTable]

\* Stored curves of the forecast databases: none yet, the curve of the
\* specification's example ([0.05]*7 + [0.15]*3 + [0.05]*2), and curves that
\* run-seasonality computes (by Factors) from a year without August sales
\* and from a year whose August returns cancel its September sales.
ExampleCurve ==
  [m \in Months |-> IF m \in {8, 9, 10} THEN Rat(15, 100) ELSE Rat(5, 100)]
ToysUnits == [m \in Months |-> IF m \in {8, 9, 10} THEN Num(30) ELSE Num(10)]
NoAugustUnits == [ToysUnits EXCEPT ![8] = Zero]
CancellingUnits == [ToysUnits EXCEPT ![8] = Num(-30), ![10] = Zero]
CurveOf(mu) == Factors(mu, TotalUnits(mu))
Curves == {NullCurve, ExampleCurve, CurveOf(NoAugustUnits),
           CurveOf(CancellingUnits)}

\* <<units, revenues>> of the recent (l3m) and trailing (ltm) windows
PriceProfiles ==
  { <<<<Num(90), Num(900)>>, <<Num(100), Num(500)>>>>,
    <<<<NULL, NULL>>, <<Num(100), Num(500)>>>>,
    <<<<Zero, Zero>>, <<Num(100), Num(500)>>>>,
    <<<<Num(-10), Num(-100)>>, <<Num(100), Num(500)>>>>,
    <<<<Num(-10), Num(-100)>>, <<Num(100), Num(-500)>>>>,
    <<<<Num(-10), Num(-100)>>, <<Num(-100), Num(-500)>>>>,
    <<<<Num(-10), Num(-100)>>, <<NULL, NULL>>>> }

NoStock == <<Zero, Zero>>

\* the first ASIN ranges over every combination; the others are companions
\* for the brand sums and for single-ASIN runs
ForecastInputs(a) ==
  IF a = 1
  THEN {AsinRow(b, s, e, p[1], p[2], NoStock) :
          b \in {NullId} \cup Brands, s \in {NullId} \cup Seasonalities,
          e \in {Zero, One}, p \in PriceProfiles}
  ELSE {AsinRow(b, 1, e, <<Num(90), Num(900)>>, <<Num(100), Num(500)>>, NoStock) :
          b \in Brands, e \in {NULL, One}}

\* no transaction of run-trailing-metrics is open
NoTxn == [asin |-> <<>>, brand |-> <<>>]

\* databases in which run-trailing-metrics and its tables play no part
\* (no query of the other programs groups by metric: either collation)
NoLtm ==
  /\ collation = "ci"
  /\ summary_asin = {}
  /\ summary_brand = {}
  /\ stock = {}
  /\ ltm_pc = "idle"
  /\ ltm_mode = [kind |-> "all", brand_id |-> NullId]
  /\ ltm_idx = 0
  /\ ltm_errors = <<>>
  /\ ltm_txn = NoTxn
  /\ ltm_exit = -1

CommonInit ==
  /\ brand = [b \in Brands |-> BrandRow0]
  /\ forecast_asin = EmptyTable
  /\ forecast_brand = EmptyTable
  /\ season_pc = "idle"
  /\ season_idx = 0
  /\ fc_pc = "idle"
  /\ fc_filter = NullId
  /\ os_pc = "idle"
  /\ os_mode = "both"
  /\ last_fc_rollup = NoRollup
  /\ last_os_rollup = NoRollup
  /\ fc_exit = -1
  /\ os_exit = -1
  /\ fc_before = NoBefore
  /\ fc_interrupted = NoInterrupt

\* a database for run-forecast: the first seasonality has a computed curve or
\* none yet, the others none yet
InitForecast ==
  /\ CommonInit
  /\ NoLtm
  /\ financials = {}
  /\ asin \in [Asins -> UNION {ForecastInputs(a) : a \in Asins}]
  /\ \A a \in Asins : asin[a] \in ForecastInputs(a)
  /\ \E c \in Curves :
       seasonality = [g \in Seasonalities |-> IF g = 1 THEN c ELSE NullCurve]
  /\ season_txn = seasonality

NextForecast ==
  \/ FcAsinDelete
  \/ FcAsinInsert
  \/ FcBrandSkip
  \/ FcBrandDelete
  \/ FcBrandInsert
  \/ FcExit

SpecForecast == InitForecast /\ [][NextForecast]_vars

\* a database for run-overstock: stock of either sign on the first ASIN,
\* forecasts that are zero (EOL), positive or negative
OverstockInputs(a) ==
  IF a = 1
  THEN {AsinRow(b, 1, k[1], k[2], <<Num(100), Num(500)>>, <<su, sv>>) :
          b \in {NullId} \cup Brands,
          k \in { <<One, <<Num(450), Num(4500)>>>>,
                  <<Zero, <<Num(450), Num(4500)>>>>,
                  <<Zero, <<Num(-10), Num(-100)>>>> },
          su \in {Num(-5), Zero, Num(5), Num(500)},
          sv \in {Num(-10), Zero, Num(1000)}}
  ELSE {AsinRow(b, 1, NULL, <<Num(90), Num(900)>>, <<Num(100), Num(500)>>,
                <<Num(5), Num(10)>>) : b \in Brands}

InitOverstock ==
  /\ CommonInit
  /\ NoLtm
  /\ financials = {}
  /\ asin \in [Asins -> UNION {OverstockInputs(a) : a \in Asins}]
  /\ \A a \in Asins : asin[a] \in OverstockInputs(a)
  /\ seasonality =
       [g \in Seasonalities |-> IF g = 1 THEN ExampleCurve ELSE NullCurve]
  /\ season_txn = seasonality

NextOverstock ==
  \/ FcAsinDelete
  \/ FcAsinInsert
  \/ FcBrandSkip
  \/ FcBrandDelete
  \/ FcBrandInsert
  \/ FcExit
  \/ OsAsinStage
  \/ OsBrandStage
  \/ OsExit

SpecOverstock == InitOverstock /\ [][NextOverstock]_vars

\* databases for runs that fail or are killed: one curve, a first ASIN with
\* or without a brand, active or EOL, with little or much stock
FailureInputs(a) ==
  IF a = 1
  THEN {AsinRow(b, 1, e, <<Num(90), Num(900)>>, <<Num(100), Num(500)>>,
                <<su, Num(1000)>>) :
          b \in {NullId, 1}, e \in {Zero, One}, su \in {Num(5), Num(500)}}
  ELSE {AsinRow(1, 1, NULL, <<Num(450), Num(4500)>>, <<Num(100), Num(500)>>,
                <<Num(500), Num(1000)>>)}

InitFailure ==
  /\ CommonInit
  /\ NoLtm
  /\ financials = {}
  /\ asin \in [Asins -> UNION {FailureInputs(a) : a \in Asins}]
  /\ \A a \in Asins : asin[a] \in FailureInputs(a)
  /\ seasonality =
       [g \in Seasonalities |-> IF g = 1 THEN ExampleCurve ELSE NullCurve]
  /\ season_txn = seasonality

NextFailure ==
  \/ FcAsinDelete
  \/ FcAsinInsert
  \/ FcBrandSkip
  \/ FcBrandDelete
  \/ FcBrandInsert
  \/ FcExit
  \/ FcAsinFail
  \/ FcBrandFail
  \/ FcFatal
  \/ FcCrash
  \/ OsAsinStage
  \/ OsBrandStage
  \/ OsExit
  \/ OsAsinFail
  \/ OsFatal

SpecFailure == InitFailure /\ [][NextFailure]_vars

\* ------------------------------------------------------------------------
\* run-trailing-metrics (compute_ltm_metrics.py) and the summary tables it
\* reads (database/refresh_summaries.py)
\* ------------------------------------------------------------------------
\* the LTM period of the queries: November 2024 .. October 2025
LtmWindow(r) ==
  \/ r.year = 2024 /\ r.mon >= 11
  \/ r.year = 2025 /\ r.mon <= 10

\* what GROUP BY metric compares: under a case-insensitive collation the
\* casings of one label form one group (its label is then only read
\* through LOWER or lower()), under a case-sensitive one each casing is a
\* group of its own
MetricKey(m) == IF collation = "ci" THEN Lower(m) ELSE m

\* SUM(total_value) over a set of rows with a key
RECURSIVE SumTotal(_)
SumTotal(S) ==
  IF S = {} THEN Zero
  ELSE LET r == CHOOSE x \in S : TRUE
       IN  RAdd(r.total_value, SumTotal(S \ {r}))

\* ids in ascending order (ORDER BY id)
RECURSIVE IdSeq(_)
IdSeq(S) ==
  IF S = {} THEN <<>>
  ELSE LET m == CHOOSE x \in S : \A y \in S : x <= y
       IN  <<m>> \o IdSeq(S \ {m})

\* INSERT INTO financials: one row of an imported file
ImportFact(f) ==
  /\ ltm_pc = "idle"
  /\ f \notin financials
  /\ financials' = financials \cup {f}
  /\ UNCHANGED <<runVars, asin, brand, seasonality, forecast_asin,
                 forecast_brand, season_pc, season_idx, season_txn, fc_pc,
                 fc_filter, os_pc, os_mode, last_fc_rollup, last_os_rollup,
                 collation, summary_asin, summary_brand, stock, ltm_pc,
                 ltm_mode, ltm_idx, ltm_errors, ltm_txn, ltm_exit>>

\* the SELECT that fills financials_summary_monthly_asin_marketplace
\* (category_id follows from brand_id and is left out)
AsinSummaryRows ==
  LET src == {f \in financials :
                /\ f.asin_id \in DOMAIN asin
                /\ asin[f.asin_id].brand_id \in DOMAIN brand
                /\ brand[asin[f.asin_id].brand_id].group # "stock"}
      key(f) == <<f.asin_id, f.marketplace, f.year, f.mon, MetricKey(f.metric)>>
  IN  {[asin_id |-> k[1], brand_id |-> asin[k[1]].brand_id,
        marketplace |-> k[2], year |-> k[3], mon |-> k[4], metric |-> k[5],
        value |-> SumSet({f \in src : key(f) = k})] : k \in {key(f) : f \in src}}

\* the two SELECTs that fill financials_summary_monthly_brand from the
\* ASIN summary sa: by marketplace, and over all marketplaces as 'ALL'
BrandSummaryRows(sa) ==
  LET key(r) == <<r.brand_id, r.marketplace, r.year, r.mon, MetricKey(r.metric)>>
      keyAll(r) == <<r.brand_id, r.year, r.mon, MetricKey(r.metric)>>
  IN  {[brand_id |-> k[1], marketplace |-> k[2], year |-> k[3], mon |-> k[4],
        metric |-> k[5],
        total_value |-> SumSet({r \in sa : key(r) = k})] : k \in {key(r) : r \in sa}}
      \cup
      {[brand_id |-> k[1], marketplace |-> "ALL", year |-> k[2], mon |-> k[3],
        metric |-> k[4],
        total_value |-> SumSet({r \in sa : keyAll(r) = k})] :
          k \in {keyAll(r) : r \in sa}}

\* refresh_summaries.py with its --skip-* / --only-* choices (the category
\* summary is read by no computation here)
RefreshSummaries(refresh_asin, refresh_brand) ==
  /\ ltm_pc = "idle"
  /\ refresh_asin \/ refresh_brand
  /\ summary_asin' = IF refresh_asin THEN AsinSummaryRows ELSE summary_asin
  /\ summary_brand' = IF refresh_brand THEN BrandSummaryRows(summary_asin')
                      ELSE summary_brand
  /\ UNCHANGED <<runVars, financials, asin, brand, seasonality, forecast_asin,
                 forecast_brand, season_pc, season_idx, season_txn, fc_pc,
                 fc_filter, os_pc, os_mode, last_fc_rollup, last_os_rollup,
                 collation, stock, ltm_pc, ltm_mode, ltm_idx, ltm_errors,
                 ltm_txn, ltm_exit>>
\* the stages of a run: compute_ltm_metrics lines 441-456
LtmModes ==
  {[kind |-> k, brand_id |-> NullId] : k \in {"all", "asins_only", "brands_only"}}
  \cup {[kind |-> k, brand_id |-> b] :
          k \in {"brand_id", "asins_for_brand_id"}, b \in Brands}
HasAsinStage(mode) == mode.kind \in {"all", "asins_only", "asins_for_brand_id"}
HasBrandStage(mode) == mode.kind \in {"all", "brands_only", "brand_id"}

\* the rows each stage loops over, in the order of its SELECT
LtmAsinList(mode) ==
  IF mode.brand_id # NullId
  THEN IdSeq({a \in DOMAIN asin : asin[a].brand_id = mode.brand_id})
  ELSE IdSeq(DOMAIN asin)
LtmBrandList(mode) ==
  IF mode.brand_id # NullId
  THEN IdSeq({b \in DOMAIN brand : b = mode.brand_id})
  ELSE IdSeq({b \in DOMAIN brand : brand[b].group # "stock"})

\* the result set of SELECT metric, SUM(..) .. GROUP BY metric
LtmAsinResults(a) ==
  LET sel == {r \in summary_asin :
                /\ r.asin_id = a
                /\ LtmWindow(r)
                /\ Lower(r.metric) \in {"net revenue", "cm3"}}
  IN  {[metric |-> k,
        total_value |-> SumSet({r \in sel : MetricKey(r.metric) = k})] :
          k \in {MetricKey(r.metric) : r \in sel}}
LtmBrandResults(b) ==
  LET sel == {r \in summary_brand :
                /\ r.brand_id = b
                /\ r.marketplace = "ALL"
                /\ LtmWindow(r)
                /\ Lower(r.metric) \in {"net revenue", "cm3"}}
  IN  {[metric |-> k,
        total_value |-> SumTotal({r \in sel : MetricKey(r.metric) = k})] :
          k \in {MetricKey(r.metric) : r \in sel}}

\* the extraction loop: each row of the result set assigns (does not add
\* to) the variable of its lower-cased label, so the last row of a label
\* in the order the server returned them is the one that stays; that
\* order is not specified, so any row of the label can be the last
LtmExtract(results, name) ==
  LET rows == {r \in results : Lower(r.metric) = name}
  IN  IF rows = {} THEN {Zero} ELSE {OrZero(r.total_value) : r \in rows}

\* SELECT SUM(value) FROM stock, by product and by brand through asin
LtmAsinStock(a) ==
  OrZero(SumSet({s \in stock : s.asin_id = a /\ LtmWindow(s)}))
LtmBrandStock(b) ==
  OrZero(SumSet({s \in stock : /\ s.asin_id \in DOMAIN asin
                               /\ asin[s.asin_id].brand_id = b
                               /\ LtmWindow(s)}))

LtmEbitdaAlwaysDivides(ltm_cm3, ltm_revenues) ==
  IF ~RIsZero(ltm_revenues)
  THEN RMul(RDiv(ltm_cm3, ltm_revenues), Num(100)) ELSE Zero
\* (ltm_cm3 / ltm_revenues * 100) if ltm_revenues > 0 else 0
LtmEbitda(ltm_cm3, ltm_revenues) ==
  IF RPos(ltm_revenues)
  THEN RMul(RDiv(ltm_cm3, ltm_revenues), Num(100)) ELSE Zero

LtmRow(row, ltm_revenues, ltm_cm3, ltm_stock) ==
  [row EXCEPT !.ltm_revenues = ltm_revenues,
              !.ltm_cm3 = ltm_cm3,
              !.ltm_brand_ebitda = LtmEbitda(ltm_cm3, ltm_revenues),
              !.stock_value = ltm_stock]

ltmFrame ==
  <<runVars, financials, seasonality, forecast_asin, forecast_brand,
    season_pc, season_idx, season_txn, fc_pc, fc_filter, os_pc, os_mode,
    last_fc_rollup, last_os_rollup, collation, summary_asin, summary_brand,
    stock>>

\* a run starts: the connection's transaction sees the committed tables
LtmStart(mode) ==
  /\ ltm_pc = "idle"
  /\ ltm_pc' = IF HasAsinStage(mode) THEN "asin_loop" ELSE "brand_loop"
  /\ ltm_mode' = mode
  /\ ltm_idx' = 0
  /\ ltm_errors' = <<>>
  /\ ltm_txn' = [asin |-> asin, brand |-> brand]
  /\ ltm_exit' = -1
  /\ UNCHANGED <<ltmFrame, asin, brand>>

\* one pass of the per-ASIN loop whose try block succeeds
LtmAsinRow ==
  /\ ltm_pc = "asin_loop"
  /\ ltm_idx < Len(LtmAsinList(ltm_mode))
  /\ LET a == LtmAsinList(ltm_mode)[ltm_idx + 1]
         results == LtmAsinResults(a)
     IN  \E ltm_revenues \in LtmExtract(results, "net revenue"),
            ltm_cm3 \in LtmExtract(results, "cm3") :
           ltm_txn' = [ltm_txn EXCEPT !.asin[a] =
                         LtmRow(@, ltm_revenues, ltm_cm3, LtmAsinStock(a))]
  /\ ltm_idx' = ltm_idx + 1
  /\ UNCHANGED <<ltmFrame, asin, brand, ltm_pc, ltm_mode, ltm_errors, ltm_exit>>

\* one pass of the per-ASIN loop whose try block raises: a statement that
\* fails changes no row
LtmAsinRowError ==
  /\ ltm_pc = "asin_loop"
  /\ ltm_idx < Len(LtmAsinList(ltm_mode))
  /\ ltm_errors' = Append(ltm_errors, <<"asin", LtmAsinList(ltm_mode)[ltm_idx + 1]>>)
  /\ ltm_idx' = ltm_idx + 1
  /\ UNCHANGED <<ltmFrame, asin, brand, ltm_pc, ltm_mode, ltm_txn, ltm_exit>>

\* the end of the ASIN stage: conn.commit() (an empty list returns before
\* the loop with nothing written), then the next stage of the mode
LtmAsinEnd ==
  /\ ltm_pc = "asin_loop"
  /\ ltm_idx = Len(LtmAsinList(ltm_mode))
  /\ asin' = ltm_txn.asin
  /\ ltm_pc' = IF HasBrandStage(ltm_mode) THEN "brand_loop" ELSE "done"
  /\ ltm_idx' = 0
  /\ UNCHANGED <<ltmFrame, brand, ltm_mode, ltm_errors, ltm_txn, ltm_exit>>

\* one pass of the per-brand loop whose try block succeeds
LtmBrandRow ==
  /\ ltm_pc = "brand_loop"
  /\ ltm_idx < Len(LtmBrandList(ltm_mode))
  /\ LET b == LtmBrandList(ltm_mode)[ltm_idx + 1]
         results == LtmBrandResults(b)
     IN  \E ltm_revenues \in LtmExtract(results, "net revenue"),
            ltm_cm3 \in LtmExtract(results, "cm3") :
           ltm_txn' = [ltm_txn EXCEPT !.brand[b] =
                         LtmRow(@, ltm_revenues, ltm_cm3, LtmBrandStock(b))]
  /\ ltm_idx' = ltm_idx + 1
  /\ UNCHANGED <<ltmFrame, asin, brand, ltm_pc, ltm_mode, ltm_errors, ltm_exit>>

LtmBrandRowError ==
  /\ ltm_pc = "brand_loop"
  /\ ltm_idx < Len(LtmBrandList(ltm_mode))
  /\ ltm_errors' = Append(ltm_errors, <<"brand", LtmBrandList(ltm_mode)[ltm_idx + 1]>>)
  /\ ltm_idx' = ltm_idx + 1
  /\ UNCHANGED <<ltmFrame, asin, brand, ltm_pc, ltm_mode, ltm_txn, ltm_exit>>

\* the end of the brand stage: conn.commit()
LtmBrandEnd ==
  /\ ltm_pc = "brand_loop"
  /\ ltm_idx = Len(LtmBrandList(ltm_mode))
  /\ brand' = ltm_txn.brand
  /\ ltm_pc' = "done"
  /\ ltm_idx' = 0
  /\ UNCHANGED <<ltmFrame, asin, ltm_mode, ltm_errors, ltm_txn, ltm_exit>>

LtmExitFailsOnErrors ==
  /\ ltm_pc = "done"
  /\ ltm_pc' = "idle"
  /\ ltm_txn' = NoTxn
  /\ ltm_exit' = IF ltm_errors = <<>> THEN 0 ELSE 1
  /\ ltm_mode' = [kind |-> "all", brand_id |-> NullId]
  /\ ltm_idx' = 0
  /\ ltm_errors' = <<>>
  /\ UNCHANGED <<ltmFrame, asin, brand>>
\* compute_ltm_metrics returns: the process ends with status 0, whatever
\* the error lists hold
LtmExit ==
  /\ ltm_pc = "done"
  /\ ltm_pc' = "idle"
  /\ ltm_txn' = NoTxn
  /\ ltm_exit' = 0
  /\ ltm_mode' = [kind |-> "all", brand_id |-> NullId]
  /\ ltm_idx' = 0
  /\ ltm_errors' = <<>>
  /\ UNCHANGED <<ltmFrame, asin, brand>>

\* an exception outside the per-row try blocks (the list query, the
\* commit, the connection): caught in __main__, exit(1); what the open
\* transaction wrote is lost with the connection
LtmFatal ==
  /\ ltm_pc \in {"asin_loop", "brand_loop"}
  /\ ltm_pc' = "idle"
  /\ ltm_idx' = 0
  /\ ltm_txn' = NoTxn
  /\ ltm_exit' = 1
  /\ ltm_mode' = [kind |-> "all", brand_id |-> NullId]
  /\ ltm_errors' = <<>>
  /\ UNCHANGED <<ltmFrame, asin, brand>>
\* a database for run-trailing-metrics: facts of two ASINs in two
\* marketplaces under several casings of the labels, inside and outside
\* the LTM period; the second brand may be in the group 'stock'; the
\* summary tables have not been filled yet
LtmFact(id, a, marketplace, metric, year, mon, value) ==
  [id |-> id, asin_id |-> a, marketplace |-> marketplace, metric |-> metric,
   year |-> year, mon |-> mon, value |-> Num(value)]

LtmFactBase ==
  { LtmFact(1, 1, "US", "Net revenue", 2024, 11, 100),
    LtmFact(3, 1, "DE", "CM3", 2025, 10, 30),
    LtmFact(4, 1, "US", "Net revenue", 2024, 10, 7),
    LtmFact(5, NumAsins, "US", "net revenue", 2025, 10, -50),
    LtmFact(6, NumAsins, "US", "cm3", 2025, 1, 20),
    LtmFact(7, NumAsins, "DE", "Net revenue", 2025, 11, 9),
    LtmFact(8, NumAsins, "DE", "Net revenue", 2025, 3, 20) }

\* a file imported later: the same month under another casing of the label
LtmFactImports ==
  { LtmFact(2, 1, "US", "NET REVENUE", 2024, 11, 40) }

StockRow(id, a, year, mon, value) ==
  [id |-> id, asin_id |-> a, year |-> year, mon |-> mon, value |-> Num(value)]

LtmStock ==
  { StockRow(1, 1, 2025, 1, 1000),
    StockRow(2, 1, 2024, 1, 77),
    StockRow(3, NumAsins, 2024, 12, 200) }

LtmInputs(a) ==
  {AsinRow(b, NullId, NULL, <<NULL, NULL>>, <<Num(10), Num(500)>>,
           <<Num(5), Num(1000)>>) :
     b \in IF a = 1 THEN {1} ELSE {1, NumBrands}}

InitLtm ==
  /\ financials = LtmFactBase
  /\ asin \in {f \in [Asins -> UNION {LtmInputs(a) : a \in Asins}] :
                 \A a \in Asins : f[a] \in LtmInputs(a)}
  /\ brand \in {f \in [Brands -> {[BrandRow0 EXCEPT !.group = g] : g \in {"", "stock"}}] :
                  f[1].group = ""}
  /\ seasonality = [s \in Seasonalities |-> NullCurve]
  /\ season_txn = seasonality
  /\ forecast_asin = EmptyTable
  /\ forecast_brand = EmptyTable
  /\ season_pc = "idle"
  /\ season_idx = 0
  /\ fc_pc = "idle"
  /\ fc_filter = NullId
  /\ os_pc = "idle"
  /\ os_mode = "both"
  /\ last_fc_rollup = NoRollup
  /\ last_os_rollup = NoRollup
  /\ fc_exit = -1
  /\ os_exit = -1
  /\ fc_before = NoBefore
  /\ fc_interrupted = NoInterrupt
  /\ collation \in {"ci", "cs"}
  /\ summary_asin = {}
  /\ summary_brand = {}
  /\ stock = LtmStock
  /\ ltm_pc = "idle"
  /\ ltm_mode = [kind |-> "all", brand_id |-> NullId]
  /\ ltm_idx = 0
  /\ ltm_errors = <<>>
  /\ ltm_txn = NoTxn
  /\ ltm_exit = -1

NextLtm ==
  \/ \E f \in LtmFactImports : ImportFact(f)
  \/ \E refresh_asin \in BOOLEAN, refresh_brand \in BOOLEAN :
       RefreshSummaries(refresh_asin, refresh_brand)
  \/ \E mode \in LtmModes : LtmStart(mode)
  \/ LtmAsinRow
  \/ LtmAsinRowError
  \/ LtmAsinEnd
  \/ LtmBrandRow
  \/ LtmBrandRowError
  \/ LtmBrandEnd
  \/ LtmExit
  \/ LtmFatal

SpecLtm == InitLtm /\ [][NextLtm]_vars

\* ------------------------------------------------------------------------
\* A database whose inputs are zero where a computation divides: products
\* with zero recent and trailing sales and zero stock units, a stored curve
\* whose anchor months cancel, trailing revenue that sums to zero.  The
\* programs run one after the other, as the jobs of one operator do.
\* ------------------------------------------------------------------------
ZeroFacts ==
  { LtmFact(1, 1, "US", "Net revenue", 2025, 1, 100),
    LtmFact(2, 1, "US", "Net revenue", 2025, 2, -100),
    LtmFact(3, 1, "US", "CM3", 2025, 3, 30),
    LtmFact(4, NumAsins, "US", "Net revenue", 2025, 1, 200),
    LtmFact(5, NumAsins, "US", "CM3", 2025, 1, 50) }

ZeroInputs(a) ==
  {AsinRow(1, IF a = 1 THEN 1 ELSE NumSeasonalities, Zero, l3m, ltm, stk) :
     l3m \in IF a = 1 THEN {<<Num(90), Num(900)>>}
             ELSE {<<Zero, Zero>>, <<Num(90), Num(900)>>},
     ltm \in {<<Zero, Zero>>, <<Num(100), Num(500)>>},
     stk \in IF a = 1 THEN {<<Num(500), Num(1000)>>}
             ELSE {<<Zero, Num(1000)>>, <<Num(500), Num(1000)>>}}

InitZero ==
  /\ CommonInit
  /\ financials = ZeroFacts
  /\ asin \in {f \in [Asins -> UNION {ZeroInputs(a) : a \in Asins}] :
                 \A a \in Asins : f[a] \in ZeroInputs(a)}
  /\ \E c \in {ExampleCurve, CurveOf(CancellingUnits)} :
       seasonality = [g \in Seasonalities |->
                        IF g = 1 THEN c
                        ELSE IF g = NumSeasonalities THEN ExampleCurve
                        ELSE NullCurve]
  /\ season_txn = seasonality
  /\ collation = "ci"
  /\ summary_asin = {}
  /\ summary_brand = {}
  /\ stock = {StockRow(1, NumAsins, 2025, 1, 1000)}
  /\ ltm_pc = "idle"
  /\ ltm_mode = [kind |-> "all", brand_id |-> NullId]
  /\ ltm_idx = 0
  /\ ltm_errors = <<>>
  /\ ltm_txn = NoTxn
  /\ ltm_exit = -1

NextZero ==
  \/ ltm_pc = "idle" /\ FcAsinDelete
  \/ FcAsinInsert
  \/ FcBrandSkip
  \/ FcBrandDelete
  \/ FcBrandInsert
  \/ FcExit
  \/ ltm_pc = "idle" /\ OsAsinStage
  \/ ltm_pc = "idle" /\ OsBrandStage
  \/ OsExit
  \/ fc_pc = "idle" /\ os_pc = "idle" /\ RefreshSummaries(TRUE, TRUE)
  \/ fc_pc = "idle" /\ os_pc = "idle"
       /\ LtmStart([kind |-> "all", brand_id |-> NullId])
  \/ LtmAsinRow
  \/ LtmAsinEnd
  \/ LtmBrandRow
  \/ LtmBrandEnd
  \/ LtmExit

SpecZero == InitZero /\ [][NextZero]_vars
\* databases for the modes of run-overstock: each ASIN with or without a
\* brand, with little or much stock
ModeInputs ==
  {AsinRow(b, 1, NULL, <<Num(450), Num(4500)>>, <<Num(100), Num(500)>>,
           <<su, Num(1000)>>) :
     b \in {NullId, 1}, su \in {Num(5), Num(500)}}

InitModes ==
  /\ CommonInit
  /\ NoLtm
  /\ financials = {}
  /\ asin \in [Asins -> ModeInputs]
  /\ seasonality =
       [g \in Seasonalities |-> IF g = 1 THEN ExampleCurve ELSE NullCurve]
  /\ season_txn = seasonality

NextModes ==
  \/ FcAsinDelete
  \/ FcAsinInsert
  \/ FcBrandSkip
  \/ FcBrandDelete
  \/ FcBrandInsert
  \/ FcExit
  \/ OsAsinStage
  \/ OsAsinStatsFail
  \/ OsFatal
  \/ OsBrandStage
  \/ OsExit

SpecModes == InitModes /\ [][NextModes]_vars

\* ------------------------------------------------------------------------
\* run-overstock started while run-forecast is running.  Nothing in either
\* program keeps the other out: each sees what the other has committed.
\* ------------------------------------------------------------------------
\* compute_asin_overstock, its UPDATE reading the committed forecast_asin
OsAsinStageDuringForecast ==
  /\ season_pc = "idle" /\ fc_pc # "idle" /\ os_pc = "idle"
  /\ StatsAsins # {}
  /\ \E mode \in {"both", "asins_only"} :
       /\ os_mode' = mode
       /\ os_pc' = IF mode = "both" THEN "asin_done" ELSE "done"
  /\ asin' = [a \in Asins |->
                IF asin[a].brand_id # NullId
                THEN [asin[a] EXCEPT !.stock_overstock_unit = OverstockUnit(a),
                                     !.stock_overstock_value = OverstockValue(a)]
                ELSE asin[a]]
  /\ os_exit' = -1
  /\ UNCHANGED <<ltmVars, fc_exit, fc_before, fc_interrupted,
                 financials, brand, seasonality, forecast_asin, forecast_brand,
                 season_pc, season_idx, season_txn, fc_pc, fc_filter,
                 last_fc_rollup, last_os_rollup>>

NextConcurrent ==
  \/ FcAsinDelete
  \/ FcAsinInsert
  \/ FcBrandSkip
  \/ FcBrandDelete
  \/ FcBrandInsert
  \/ FcExit
  \/ OsAsinStage
  \/ OsAsinStageDuringForecast
  \/ OsAsinStatsFail
  \/ OsFatal
  \/ OsBrandStage
  \/ OsExit

SpecConcurrent == InitModes /\ [][NextConcurrent]_vars

\* ------------------------------------------------------------------------
\* Databases for the yearly total of a forecast: the example curve, whose
\* values add up to 0.9, and a curve computed by run-seasonality, whose
\* values add up to 1
\* ------------------------------------------------------------------------
InitCurves ==
  /\ CommonInit
  /\ NoLtm
  /\ financials = {}
  /\ asin \in [Asins -> ModeInputs]
  /\ \E c \in {ExampleCurve, CurveOf(ToysUnits)} :
       seasonality = [g \in Seasonalities |-> IF g = 1 THEN c ELSE NullCurve]
  /\ season_txn = seasonality

SpecCurves == InitCurves /\ [][NextForecast]_vars

\* ------------------------------------------------------------------------
\* A database with a product whose brand_id is NULL: it carries overstock
\* values and, in some databases, ForecastPoint rows that were not written
\* by the runs modelled here (nothing ties forecast_asin rows to a brand)
\* ------------------------------------------------------------------------
StaleRows ==
  InsertRows(EmptyTable, {FcRow(1, "Net units", 202511, Num(40)),
                          FcRow(1, "Net revenue", 202511, Num(400))})

BrandlessInputs(a) ==
  IF a = 1
  THEN {[AsinRow(b, 1, Zero, <<Num(450), Num(4500)>>, <<Num(100), Num(500)>>,
                 <<Num(500), Num(1000)>>)
           EXCEPT !.stock_overstock_unit = Num(7),
                  !.stock_overstock_value = Num(70)] : b \in {NullId, 1}}
  ELSE {AsinRow(1, 1, NULL, <<Num(90), Num(900)>>, <<Num(100), Num(500)>>,
                <<su, Num(1000)>>) : su \in {Num(5), Num(500)}}

InitBrandless ==
  /\ NoLtm
  /\ financials = {}
  /\ asin \in {f \in [Asins -> UNION {BrandlessInputs(a) : a \in Asins}] :
                 \A a \in Asins : f[a] \in BrandlessInputs(a)}
  /\ brand = [b \in Brands |-> BrandRow0]
  /\ seasonality =
       [g \in Seasonalities |-> IF g = 1 THEN ExampleCurve ELSE NullCurve]
  /\ season_txn = seasonality
  /\ forecast_asin \in {EmptyTable, StaleRows}
  /\ forecast_brand = EmptyTable
  /\ season_pc = "idle"
  /\ season_idx = 0
  /\ fc_pc = "idle"
  /\ fc_filter = NullId
  /\ os_pc = "idle"
  /\ os_mode = "both"
  /\ last_fc_rollup = NoRollup
  /\ last_os_rollup = NoRollup
  /\ fc_exit = -1
  /\ os_exit = -1
  /\ fc_before = NoBefore
  /\ fc_interrupted = NoInterrupt

SpecBrandless == InitBrandless /\ [][NextOverstock]_vars
\* a database for run-seasonality: facts of two ASINs, each group with no
\* curve yet or with a curve stored by an earlier run
Fact(id, a, metric, year, mon, value) ==
  [id |-> id, asin_id |-> a, metric |-> metric, year |-> year, mon |-> mon,
   value |-> Num(value)]

FactUniverse ==
  { Fact(1, 1, "Net units", 2024, 1, 10),
    Fact(2, 1, "NET UNITS", 2024, 8, 30),
    Fact(3, NumAsins, "Net units", 2024, 8, -30),
    Fact(4, NumAsins, "net units", 2024, 12, 20),
    Fact(5, 1, "Net units", 2023, 8, 50),
    Fact(6, NumAsins, "Net revenue", 2024, 1, 900) }

SeasonInputs ==
  {AsinRow(1, s, e, <<NULL, NULL>>, <<NULL, NULL>>, NoStock) :
     s \in {NullId} \cup Seasonalities, e \in {NULL, Zero, One}}

InitSeason ==
  /\ CommonInit
  /\ NoLtm
  /\ financials \in SUBSET FactUniverse
  /\ asin \in [Asins -> SeasonInputs]
  /\ seasonality \in [Seasonalities -> {NullCurve, ExampleCurve}]
  /\ season_txn = seasonality

NextSeason ==
  \/ SeasonStart
  \/ SeasonGroup
  \/ SeasonCommit
  \/ SeasonExit
  \/ FlushFinancials

SpecSeason == InitSeason /\ [][NextSeason]_vars

\* ------------------------------------------------------------------------
\* run-seasonality with its failure paths.  The UPDATE of a group sets its
\* 12 columns in one statement of the open transaction; nothing is
\* committed before the loop has ended.
\* ------------------------------------------------------------------------
SeasonGroupErrorCommits ==
  /\ season_pc = "loop"
  /\ season_idx < NumSeasonalities
  /\ seasonality' = season_txn
  /\ season_pc' = "failed"
  /\ UNCHANGED <<ltmVars, runVars,
                 financials, asin, brand, forecast_asin, forecast_brand,
                 season_idx, season_txn, fc_pc, fc_filter, os_pc, os_mode,
                 last_fc_rollup, last_os_rollup>>
\* an exception while a group is processed (its query or its UPDATE fails;
\* a failed statement changes no row): the except block rolls the
\* transaction back and calls sys.exit(1)
SeasonGroupError ==
  /\ season_pc = "loop"
  /\ season_idx < NumSeasonalities
  /\ season_txn' = seasonality
  /\ season_pc' = "failed"
  /\ UNCHANGED <<ltmVars, runVars,
                 financials, asin, brand, seasonality, forecast_asin,
                 forecast_brand, season_idx, fc_pc, fc_filter, os_pc, os_mode,
                 last_fc_rollup, last_os_rollup>>

\* the process exits with status 1 after the finally block
SeasonExitFailed ==
  /\ season_pc = "failed"
  /\ season_pc' = "idle"
  /\ season_idx' = 0
  /\ season_txn' = seasonality
  /\ UNCHANGED <<ltmVars, runVars,
                 financials, asin, brand, seasonality, forecast_asin,
                 forecast_brand, fc_pc, fc_filter,
                 os_pc, os_mode, last_fc_rollup, last_os_rollup>>

\* the process is killed, or its connection is lost, anywhere in the loop:
\* the server rolls the open transaction back
SeasonCrash ==
  /\ season_pc = "loop"
  /\ season_pc' = "idle"
  /\ season_idx' = 0
  /\ season_txn' = seasonality
  /\ UNCHANGED <<ltmVars, runVars,
                 financials, asin, brand, seasonality, forecast_asin,
                 forecast_brand, fc_pc, fc_filter,
                 os_pc, os_mode, last_fc_rollup, last_os_rollup>>

\* sys.exit(1) in the except block, status 0 when the function returns
SeasonExitStatus ==
  IF season_pc = "failed" THEN 1 ELSE IF season_pc = "done" THEN 0 ELSE -1

NextSeasonFailure ==
  \/ SeasonStart
  \/ SeasonGroup
  \/ SeasonGroupError
  \/ SeasonCrash
  \/ SeasonCommit
  \/ SeasonExit
  \/ SeasonExitFailed
  \/ FlushFinancials

SpecSeasonFailure == InitSeason /\ [][NextSeasonFailure]_vars

\* ------------------------------------------------------------------------
\* Claims
\* ------------------------------------------------------------------------
\* the summed 2024 'net units' of the non-EOL members of group g, written
\* from the facts (not from the loop's monthly_units)
RefYearUnits(g) ==
  SumSet({f \in financials :
            /\ asin[f.asin_id].seasonality = g
            /\ asin[f.asin_id].eol # One
            /\ f.metric \in {"Net units", "NET UNITS", "net units"}
            /\ f.year = 2024})

Metrics == {"Net units", "Net revenue"}
WindowMonths == {202511, 202512, 202601, 202602, 202603, 202604,
                 202605, 202606, 202607, 202608, 202609, 202610}

RowsOf(a) == {r \in DOMAIN forecast_asin : r.asin_id = a}
PointsOf(a, metric, month) ==
  {r \in RowsOf(a) : r.metric = metric /\ r.month = month}

\* the 24 ForecastPoints of a: one row per metric and window month, no other
HasAll24(a) ==
  /\ \A metric \in Metrics, month \in WindowMonths :
       CountRows(forecast_asin, PointsOf(a, metric, month)) = 1
  /\ CountRows(forecast_asin, RowsOf(a)) = 24

\* the run that has just completed computed the forecast of a
RanFor(a) ==
  /\ fc_pc = "done"
  /\ asin[a].brand_id # NullId
  /\ fc_filter \in {NullId, a}

\* the stored distribution of a's seasonality group (NULL when it has none)
Dist(a, m) ==
  IF asin[a].seasonality_id = NullId THEN NULL
  ELSE seasonality[asin[a].seasonality_id][m]
NullAsZero(x) == IF x = NULL THEN Zero ELSE x
AnchorSum(a) ==
  RAdd(NullAsZero(Dist(a, 8)),
       RAdd(NullAsZero(Dist(a, 9)), NullAsZero(Dist(a, 10))))
UsableCurve(a) ==
  /\ asin[a].seasonality_id # NullId
  /\ Dist(a, 8) # NULL /\ Dist(a, 8) # Zero
  /\ AnchorSum(a) # Zero

\* C2: after run-forecast completes, every ForecastPoint of an EOL product is
\* exactly 0, whatever its seasonality, curve, recent units or revenue, and
\* the products the run computed have all 24 of them.
C2_EolZero ==
  fc_pc = "done" =>
    \A a \in Asins :
      asin[a].eol = One =>
        /\ \A r \in RowsOf(a) : r.value = Zero
        /\ RanFor(a) => HasAll24(a)

\* an EOL product with a usable curve and recent sales has its 24 zero rows
C2_Witness ==
  \E a \in Asins :
    /\ RanFor(a)
    /\ asin[a].eol = One
    /\ UsableCurve(a)
    /\ asin[a].l3m_units = Num(90)
    /\ HasAll24(a)

\* C3: after run-forecast completes, a non-EOL product has only zero
\* ForecastPoints when it has no seasonality group, or its group's unit_08 is
\* zero or absent (even with unit_09 or unit_10 positive), or
\* unit_08 + unit_09 + unit_10 is exactly 0.
C3_NoSeasonalityZero ==
  fc_pc = "done" =>
    \A a \in Asins :
      (/\ asin[a].eol # One
       /\ \/ asin[a].seasonality_id = NullId
          \/ Dist(a, 8) = NULL
          \/ Dist(a, 8) = Zero
          \/ AnchorSum(a) = Zero) =>
        /\ \A r \in RowsOf(a) : r.value = Zero
        /\ RanFor(a) => HasAll24(a)

\* a non-EOL product whose curve has unit_08 = 0 and unit_09 > 0, with
\* recent sales, has its 24 zero rows
C3_Witness ==
  \E a \in Asins :
    /\ RanFor(a)
    /\ asin[a].eol # One
    /\ asin[a].seasonality_id # NullId
    /\ Dist(a, 8) = Zero
    /\ RPos(Dist(a, 9))
    /\ asin[a].l3m_units = Num(90)
    /\ HasAll24(a)

\* C4: after a completed all-products run-forecast, every product with a
\* brand has exactly 12 ForecastPoints per metric, one for each month
\* 2025-11 .. 2026-10 (zero rows, not absent rows, for EOL and
\* seasonality-less products).
C4_TwelvePerMetric ==
  (fc_pc = "done" /\ fc_filter = NullId) =>
    \A a \in Asins : asin[a].brand_id # NullId => HasAll24(a)

\* an EOL product and a product without seasonality, both with their rows
C4_Witness ==
  /\ fc_pc = "done" /\ fc_filter = NullId
  /\ \E a, b \in Asins :
       /\ asin[a].brand_id # NullId /\ asin[a].eol = One
       /\ asin[b].brand_id # NullId /\ asin[b].eol # One
       /\ asin[b].seasonality_id = NullId
       /\ HasAll24(a) /\ HasAll24(b)
       /\ \A r \in RowsOf(a) \cup RowsOf(b) : r.value = Zero

\* run_rate = recent_units_sum / (distribution[8] + distribution[9] + distribution[10])
RunRate(a) == RDiv(NullAsZero(asin[a].l3m_units), AnchorSum(a))

ClaimedUnitPrice(a) ==
  LET ru == NullAsZero(asin[a].l3m_units)
      rr == NullAsZero(asin[a].l3m_revenues)
      tu == NullAsZero(asin[a].ltm_units)
      tr == NullAsZero(asin[a].ltm_revenues)
  IN  IF RPos(ru) THEN RDiv(rr, ru)
      ELSE IF tu # Zero /\ RPos(RDiv(tr, tu)) THEN RDiv(tr, tu)
      ELSE Zero

\* unit_price with the trailing ratio used when trailing_units is positive
AmendedUnitPrice(a) ==
  LET ru == NullAsZero(asin[a].l3m_units)
      rr == NullAsZero(asin[a].l3m_revenues)
      tu == NullAsZero(asin[a].ltm_units)
      tr == NullAsZero(asin[a].ltm_revenues)
  IN  IF RPos(ru) THEN RDiv(rr, ru)
      ELSE IF RPos(tu) THEN RDiv(tr, tu)
      ELSE Zero

MemberPoints(b, metric, month) ==
  {r \in DOMAIN forecast_asin :
     asin[r.asin_id].brand_id = b /\ r.metric = metric /\ r.month = month}
BrandPoints(b, metric, month) ==
  {r \in DOMAIN forecast_brand :
     r.brand_id = b /\ r.metric = metric /\ r.month = month}

\* C9: after run-forecast in all-products mode completes, for every brand,
\* metric and month there is exactly one brand row when the brand has a
\* member product row (none otherwise), and its value is the sum of the
\* member products' values.
C9_BrandIsSumOfProducts ==
  (fc_pc = "done" /\ fc_filter = NullId) =>
    /\ \A r \in DOMAIN forecast_brand :
         r.brand_id \in Brands /\ r.metric \in Metrics /\ r.month \in WindowMonths
    /\ \A b \in Brands, metric \in Metrics, month \in WindowMonths :
         IF MemberPoints(b, metric, month) = {}
         THEN BrandPoints(b, metric, month) = {}
         ELSE /\ CountRows(forecast_brand, BrandPoints(b, metric, month)) = 1
              /\ \A r \in BrandPoints(b, metric, month) :
                   r.value = SumRows(forecast_asin, MemberPoints(b, metric, month))

\* two products of one brand with 10 units each in 2025-11: brand row 20
C9_Witness ==
  /\ fc_pc = "done" /\ fc_filter = NullId
  /\ \E b \in Brands :
       /\ Cardinality({a \in Asins : asin[a].brand_id = b}) >= 2
       /\ \E a \in Asins :
            FcRow(a, "Net units", 202511, Num(10)) \in DOMAIN forecast_asin
       /\ BrandRow(b, "Net units", 202511, Num(20)) \in DOMAIN forecast_brand

\* -- overstock ---------------------------------------------------------------
\* F: the sum of the product's 'Net units' ForecastPoints of 2025-11..2026-04
First6Months == {m \in WindowMonths : m <= 202604}
ForecastF(a) ==
  SumRows(forecast_asin,
          {r \in DOMAIN forecast_asin :
             r.asin_id = a /\ r.metric = "Net units" /\ r.month \in First6Months})
RMax0(x) == IF RPos(x) THEN x ELSE Zero
\* the product stage of run-overstock has run in the current run
AsinStageRan ==
  \/ os_pc = "asin_done"
  \/ os_pc = "done" /\ os_mode \in {"both", "asins_only"}

\* C7: once the product stage of run-overstock has run, each product (with a
\* brand: the ones the stage computes) has overstock_units =
\* max(0, stock_units - F), F the sum of its 'Net units' ForecastPoints of
\* 2025-11..2026-04 (0 without rows), and overstock_value = overstock_units *
\* (stock_value / stock_units) when stock_units > 0, stock_value > 0 and
\* overstock_units > 0, else 0.
C7_OverstockFormula ==
  AsinStageRan =>
    \A a \in Asins :
      asin[a].brand_id # NullId =>
        /\ asin[a].stock_overstock_unit =
             RMax0(RSub(asin[a].stock_units, ForecastF(a)))
        /\ asin[a].stock_overstock_value =
             IF /\ RPos(asin[a].stock_units)
                /\ RPos(asin[a].stock_value)
                /\ RPos(asin[a].stock_overstock_unit)
             THEN RMul(asin[a].stock_overstock_unit,
                       RDiv(asin[a].stock_value, asin[a].stock_units))
             ELSE Zero

\* the example: stock_units 500, F 300, stock_value 1000 give 200 and 400
C7_Witness ==
  /\ AsinStageRan
  /\ \E a \in Asins :
       /\ asin[a].brand_id # NullId
       /\ asin[a].stock_units = Num(500) /\ asin[a].stock_value = Num(1000)
       /\ ForecastF(a) = Num(300)
       /\ asin[a].stock_overstock_unit = Num(200)
       /\ asin[a].stock_overstock_value = Num(400)

FcRollupRepeats ==
  /\ fc_pc = "brand_deleted" /\ fc_pc' = "done"
  /\ last_fc_rollup.valid
  /\ last_fc_rollup.children = forecast_asin
\* a step that is the brand overstock rollup on the product values the
\* previous rollup read
OsRollupRepeats ==
  /\ os_pc' = "done"
  /\ os_pc = "asin_done" \/ (os_pc = "idle" /\ os_mode' = "brands_only")
  /\ last_os_rollup.valid
  /\ last_os_rollup.children = OverstockChildren

\* C10: a brand forecast rollup or brand overstock rollup that runs again on
\* unchanged product-level data leaves exactly the brand-level output of the
\* rollup before it: the same rows once each, the same values.
C10_RollupIdempotent ==
  [][ /\ FcRollupRepeats => forecast_brand' = last_fc_rollup.out
      /\ OsRollupRepeats => brand' = last_os_rollup.out ]_vars

\* both rollups have run a second time on unchanged products, with a brand
\* forecast row and a positive brand overstock to reproduce
C10_Witness ==
  /\ last_fc_rollup.repeated
  /\ \E r \in DOMAIN forecast_brand : RPos(r.value)
  /\ last_os_rollup.repeated
  /\ \E b \in Brands : RPos(brand[b].stock_overstock_unit)

\* -- run-seasonality: skipped groups and the facts a curve depends on --------
\* the 'units' facts of 2024 of the non-EOL members of group g
GroupUnitFacts(g) ==
  {f \in financials :
     /\ asin[f.asin_id].seasonality = g
     /\ asin[f.asin_id].eol # One
     /\ f.metric \in {"Net units", "NET UNITS", "net units"}
     /\ f.year = 2024}
\* the distribution of a set of facts: each month's share of their total
ShareCurve(S) ==
  [m \in Months |-> RDiv(SumSet({f \in S : f.mon = m}), SumSet(S))]
SeasonCommits == season_pc = "loop" /\ season_pc' = "done"

\* C11: the commit of run-seasonality leaves the 12 stored values of every
\* group whose reference-year total is 0 as they were before the run (not
\* zeroed), and stores the recomputed distribution of every group whose total
\* is nonzero, whichever groups were skipped before it in the same run.
C11_ZeroTotalGroupKept ==
  [][ SeasonCommits =>
        \A g \in Seasonalities :
          IF RIsZero(SumSet(GroupUnitFacts(g)))
          THEN seasonality'[g] = seasonality[g]
          ELSE seasonality'[g] = ShareCurve(GroupUnitFacts(g)) ]_vars

\* a completed run skipped group 1 (facts cancelling to 0, or none), which
\* still holds the curve of an earlier run, and computed group 2 after it
C11_Witness ==
  /\ season_pc = "done"
  /\ RIsZero(SumSet(GroupUnitFacts(1)))
  /\ seasonality[1] = ExampleCurve
  /\ ~RIsZero(SumSet(GroupUnitFacts(2)))
  /\ seasonality[2] = ShareCurve(GroupUnitFacts(2))
  /\ seasonality[2] # ExampleCurve

\* C12: the distribution run-seasonality stores for a group is a function of
\* the 2024 'units' facts of its non-EOL members alone: facts of EOL members,
\* of products of other groups, of other years and of other metrics, present
\* or not and whatever their values, do not enter it.
C12_OnlyMemberRefYearFacts ==
  season_pc = "done" =>
    \A g \in Seasonalities :
      ~RIsZero(SumSet(GroupUnitFacts(g))) =>
        seasonality[g] = ShareCurve(GroupUnitFacts(g))

\* a curve was computed for a group while the database held a 2024 units
\* fact of an EOL member of it and a 2023 units fact of a non-EOL member
C12_Witness ==
  /\ season_pc = "done"
  /\ \E g \in Seasonalities :
       /\ ~RIsZero(SumSet(GroupUnitFacts(g)))
       /\ seasonality[g] = ShareCurve(GroupUnitFacts(g))
       /\ \E f \in financials :
            /\ asin[f.asin_id].seasonality = g /\ asin[f.asin_id].eol = One
            /\ f.year = 2024 /\ Lower(f.metric) = "net units"
       /\ \E f \in financials :
            /\ asin[f.asin_id].seasonality = g /\ asin[f.asin_id].eol # One
            /\ f.year # 2024 /\ Lower(f.metric) = "net units"

\* ------------------------------------------------------------------------
\* run-trailing-metrics: claims
\* ------------------------------------------------------------------------
\* the 12 months 2024-11 .. 2025-10
InTrailingWindow(r) ==
  r.year * 100 + r.mon >= 202411 /\ r.year * 100 + r.mon <= 202510

\* the sum of all the rows the ASIN stage reads for product a that lie in
\* the window and carry the label name in any casing
TrailingFactSum(a, name) ==
  SumSet({r \in summary_asin :
            r.asin_id = a /\ InTrailingWindow(r) /\ Lower(r.metric) = name})

\* the step is a pass of the per-ASIN loop that updated its product
LtmAsinUpdated ==
  ltm_pc = "asin_loop" /\ ltm_idx' = ltm_idx + 1 /\ ltm_errors' = ltm_errors

MarginPctDerived(row) ==
  IF row.ltm_revenues[1] > 0
  THEN row.ltm_brand_ebitda =
         RDiv(RMul(row.ltm_cm3, Num(100)), row.ltm_revenues)
  ELSE row.ltm_brand_ebitda = Zero

\* C14: every product and every brand that run-trailing-metrics has
\* updated carries trailing_margin_pct = trailing_margin /
\* trailing_revenue * 100 when its trailing_revenue is positive and 0
\* when it is zero or negative.
C14_MarginPctGuarded ==
  /\ \A a \in DOMAIN asin :
       asin[a].ltm_brand_ebitda # NULL => MarginPctDerived(asin[a])
  /\ \A b \in DOMAIN brand :
       brand[b].ltm_brand_ebitda # NULL => MarginPctDerived(brand[b])

\* a product with positive revenue and a nonzero percentage, a product
\* with negative revenue, a nonzero margin and percentage 0, and a brand
\* with a nonzero percentage
C14_Witness ==
  /\ ltm_pc = "idle" /\ ltm_exit = 0
  /\ \E a \in DOMAIN asin :
       RPos(asin[a].ltm_revenues) /\ RPos(asin[a].ltm_brand_ebitda)
  /\ \E a \in DOMAIN asin :
       /\ asin[a].ltm_brand_ebitda = Zero
       /\ RNeg(asin[a].ltm_revenues) /\ RPos(asin[a].ltm_cm3)
  /\ \E b \in DOMAIN brand :
       RPos(brand[b].ltm_revenues) /\ RPos(brand[b].ltm_brand_ebitda)

\* the sum of a cached column over the member products of brand b
RECURSIVE SumColumn(_, _)
SumColumn(S, col) ==
  IF S = {} THEN Zero
  ELSE LET a == CHOOSE x \in S : TRUE
       IN  RAdd(OrZero(asin[a][col]), SumColumn(S \ {a}, col))
MemberSum(b, col) == SumColumn({a \in DOMAIN asin : asin[a].brand_id = b}, col)

\* an all-mode run has completed both stages without a row error
LtmAllCompleted ==
  ltm_pc = "done" /\ ltm_mode.kind = "all" /\ ltm_errors = <<>>

\* C15: when run-trailing-metrics in all mode has completed, each brand
\* it processed has trailing_revenue, trailing_margin and
\* trailing_stock_value equal to the sums of the same cached values of
\* its member products.  Violated: the brand stage sums the brand summary
\* table, not the product columns.
C15_BrandIsRollupOfProducts ==
  LtmAllCompleted =>
    \A b \in DOMAIN brand :
      brand[b].group # "stock" =>
        /\ brand[b].ltm_revenues = MemberSum(b, "ltm_revenues")
        /\ brand[b].ltm_cm3 = MemberSum(b, "ltm_cm3")
        /\ brand[b].stock_value = MemberSum(b, "stock_value")

\* a completed all-mode run under a case-insensitive collation after
\* which the first brand's revenue is not the sum of its products'
C15_Witness ==
  /\ LtmAllCompleted
  /\ collation = "ci"
  /\ summary_asin # {} /\ summary_brand # {}
  /\ brand[1].ltm_revenues # MemberSum(1, "ltm_revenues")
  /\ brand[1].stock_value = MemberSum(1, "stock_value")

\* the error list holds an entry for product a
LtmAsinFailed(a) ==
  \E j \in 1..Len(ltm_errors) : ltm_errors[j] = <<"asin", a>>

\* the step ends the ASIN stage (its commit)
LtmAsinStageEnds == ltm_pc = "asin_loop" /\ ltm_pc' \in {"brand_loop", "done"}

\* C16: when the computation of a product raised an error, the error is
\* in the error list, the ASIN stage still ends with its commit, after
\* which that product's cached metrics are what they were before the run
\* and every other product of the batch carries the metrics computed for
\* it; and the run ends with exit status 0.
C16_RowErrorIsolated ==
  [][/\ LtmAsinStageEnds =>
          \A i \in 1..Len(LtmAsinList(ltm_mode)) :
            LET a == LtmAsinList(ltm_mode)[i]
            IN  IF LtmAsinFailed(a)
                THEN asin'[a] = asin[a]
                ELSE /\ asin'[a].ltm_revenues \in
                          LtmExtract(LtmAsinResults(a), "net revenue")
                     /\ asin'[a].ltm_cm3 \in LtmExtract(LtmAsinResults(a), "cm3")
                     /\ asin'[a].stock_value = LtmAsinStock(a)
                     /\ asin'[a].ltm_brand_ebitda # NULL
     /\ (ltm_pc = "done" /\ ltm_pc' = "idle") => ltm_exit' = 0]_vars

\* a run about to exit whose first product failed and kept its prior
\* values while the last one was updated and committed
C16_Witness ==
  /\ ltm_pc = "done"
  /\ ltm_errors = << <<"asin", 1>> >>
  /\ asin[1].ltm_revenues = Num(500) /\ asin[1].ltm_brand_ebitda = NULL
  /\ asin[NumAsins].ltm_brand_ebitda # NULL
  /\ asin[NumAsins].ltm_revenues = Num(-30)

\* ------------------------------------------------------------------------
\* runs that fail, are killed or are repeated: claims
\* ------------------------------------------------------------------------
\* every row of table T is there once and no two rows share a key
OneRowPerAsinKey(T) ==
  /\ \A r \in DOMAIN T : T[r] = 1
  /\ \A r1, r2 \in DOMAIN T :
       (r1.asin_id = r2.asin_id /\ r1.metric = r2.metric /\ r1.month = r2.month)
         => r1 = r2
OneRowPerBrandKey(T) ==
  /\ \A r \in DOMAIN T : T[r] = 1
  /\ \A r1, r2 \in DOMAIN T :
       (r1.brand_id = r2.brand_id /\ r1.metric = r2.metric /\ r1.month = r2.month)
         => r1 = r2

\* C17: whatever runs of run-forecast came before (completed, failed,
\* killed, for one product or for all), when an all-products run has
\* completed the forecast tables hold at most one row per (product,
\* metric, month) and per (brand, metric, month), and hold exactly the
\* rows that run produced: its forecast records and their rollup.
C17_CompletedRunLeavesOnlyItsRows ==
  (fc_pc = "done" /\ fc_filter = NullId) =>
    /\ OneRowPerAsinKey(forecast_asin)
    /\ OneRowPerBrandKey(forecast_brand)
    /\ forecast_asin = InsertRows(EmptyTable, ForecastRecords(NullId))
    /\ forecast_brand = InsertRows(EmptyTable, BrandForecastRows)

\* an all-products run completed after an all-products run that was
\* interrupted between its delete and its insert, itself after a run
\* that had filled the table
C17_Witness ==
  /\ fc_pc = "done" /\ fc_filter = NullId
  /\ fc_interrupted.valid /\ fc_interrupted.before # EmptyTable
  /\ forecast_asin # EmptyTable /\ forecast_brand # EmptyTable

\* the rows run-forecast with this filter replaces
FcScope(T, filter) == {r \in DOMAIN T : filter = NullId \/ r.asin_id = filter}

\* forecast_asin after a run with this filter that starts from table T
\* and is not interrupted
UninterruptedResult(T, filter) ==
  InsertRows(KeepRows(T, FcScope(T, filter)), ForecastRecords(filter))

\* C18: a run-forecast that stops (exception or kill) after its DELETE
\* was committed and before its INSERT is committed leaves the rows of
\* its scope deleted: neither the stop nor the rollback brings them
\* back.  When the stage is then run again to completion, forecast_asin
\* is what an uninterrupted run would have made of the table as it was
\* before the interrupted run.
C18_InterruptedThenRerun ==
  [][/\ (fc_pc = "asin_deleted" /\ fc_pc' \in {"asin_failed", "idle"}) =>
          /\ forecast_asin' = forecast_asin
          /\ FcScope(forecast_asin', fc_filter) = {}
     /\ (fc_pc = "asin_failed" /\ fc_pc' = "idle" /\ fc_interrupted.valid) =>
          /\ forecast_asin' = forecast_asin
          /\ FcScope(forecast_asin', fc_interrupted.filter) = {}
     /\ (fc_pc = "asin_deleted" /\ fc_pc' = "asin_done" /\ fc_interrupted.valid) =>
          forecast_asin' = UninterruptedResult(fc_interrupted.before, fc_filter)
    ]_vars

\* the stage has been run again to completion after an interruption that
\* had emptied a filled partition
C18_Witness ==
  /\ fc_pc = "asin_done"
  /\ fc_interrupted.valid
  /\ FcScope(fc_interrupted.before, fc_filter) # {}
  /\ FcScope(forecast_asin, fc_filter) # {}

\* C19: a stage that fails fatally ends the run with a non-zero exit
\* status and the stage after it is not run: after a failure of the
\* product stage of run-forecast, and of run-overstock in its default
\* mode, the next step of the run is its exit with status 1, and the
\* brand table of the rollup is left as it was.
C19_FatalStageAborts ==
  [][/\ (fc_pc = "asin_failed" /\ fc_pc' # fc_pc) =>
          /\ fc_pc' = "idle" /\ fc_exit' = 1
          /\ forecast_brand' = forecast_brand
          /\ last_fc_rollup' = last_fc_rollup
     /\ (fc_pc = "brand_failed" /\ fc_pc' # fc_pc) =>
          fc_pc' = "idle" /\ fc_exit' = 1
     /\ (os_pc = "asin_failed" /\ os_pc' # os_pc) =>
          /\ os_pc' = "idle" /\ os_exit' = 1
          /\ brand' = brand
          /\ last_os_rollup' = last_os_rollup
    ]_vars

\* both programs have ended with status 1 after a failure of their
\* product stage, run-forecast with its table emptied and the earlier
\* brand rollup still in place
C19_Witness ==
  /\ fc_pc = "idle" /\ fc_exit = 1
  /\ fc_interrupted.valid /\ fc_interrupted.filter = NullId
  /\ forecast_asin = EmptyTable /\ forecast_brand # EmptyTable
  /\ os_pc = "idle" /\ os_exit = 1

\* the rows of the products other than a, with their numbers of copies
OtherProductsRows(T, a) == [r \in {x \in DOMAIN T : x.asin_id # a} |-> T[r]]

\* C20: a run-forecast for one product leaves the forecast rows of every
\* other product and all brand forecast rows as they were when it
\* started, puts that product's records in place of its rows and ends
\* without the brand rollup; an all-products run goes on from its
\* product stage to the brand rollup, and ends with forecast_brand being
\* the rollup of forecast_asin.
C20_SingleProductScope ==
  [][/\ (fc_pc = "asin_deleted" /\ fc_pc' = "asin_done" /\ fc_filter # NullId) =>
          /\ OtherProductsRows(forecast_asin', fc_filter)
               = OtherProductsRows(fc_before.asin, fc_filter)
          /\ FcScope(forecast_asin', fc_filter) = ForecastRecords(fc_filter)
          /\ forecast_brand' = fc_before.brand
     /\ (fc_pc = "asin_done" /\ fc_filter # NullId /\ fc_pc' # fc_pc) =>
          /\ fc_pc' = "done"
          /\ forecast_asin' = forecast_asin
          /\ forecast_brand' = fc_before.brand
     /\ (fc_pc = "asin_done" /\ fc_filter = NullId /\ fc_pc' # fc_pc) =>
          fc_pc' = "brand_deleted"
     /\ (fc_pc = "brand_deleted" /\ fc_pc' # fc_pc) =>
          /\ fc_pc' = "done"
          /\ forecast_brand' = InsertRows(EmptyTable, BrandForecastRows)
          /\ forecast_asin' = forecast_asin
    ]_vars

\* a single-product run has ended after an all-products run: the other
\* product's rows and the brand rows of that earlier run are in place
C20_Witness ==
  /\ fc_pc = "done" /\ fc_filter # NullId
  /\ FcScope(forecast_asin, fc_filter) # {}
  /\ OtherProductsRows(forecast_asin, fc_filter) # EmptyTable
  /\ fc_before.brand # EmptyTable
  /\ forecast_brand = fc_before.brand

\* ------------------------------------------------------------------------
\* run-overstock: the brand rollup and the modes
\* ------------------------------------------------------------------------
\* the brand rollup of run-overstock has just run
OsRollupRan == os_pc = "done" /\ os_mode \in {"both", "brands_only"}

\* C21: when the brand overstock rollup has run, every brand's
\* overstock_units and overstock_value are the sums of the overstock_units
\* and overstock_value of its member products, and both are 0 for a brand
\* without member products.
C21_BrandOverstockIsSum ==
  OsRollupRan =>
    \A b \in DOMAIN brand :
      /\ brand[b].stock_overstock_unit = MemberSum(b, "stock_overstock_unit")
      /\ brand[b].stock_overstock_value = MemberSum(b, "stock_overstock_value")
      /\ (\A a \in DOMAIN asin : asin[a].brand_id # b) =>
           /\ brand[b].stock_overstock_unit = Zero
           /\ brand[b].stock_overstock_value = Zero

\* a second rollup has run; one brand has two members with overstock and
\* another brand has no member
C21_Witness ==
  /\ OsRollupRan
  /\ last_os_rollup.repeated
  /\ \E b \in DOMAIN brand :
       /\ \A a \in DOMAIN asin : asin[a].brand_id = b
       /\ \A a \in DOMAIN asin : RPos(asin[a].stock_overstock_value)
       /\ RPos(brand[b].stock_overstock_unit)
  /\ \E b \in DOMAIN brand : \A a \in DOMAIN asin : asin[a].brand_id # b

\* the ASIN table after the product stage of run-overstock
OsProductStageResult ==
  [a \in DOMAIN asin |->
     IF asin[a].brand_id # NullId
     THEN [asin[a] EXCEPT !.stock_overstock_unit = OverstockUnit(a),
                          !.stock_overstock_value = OverstockValue(a)]
     ELSE asin[a]]

\* C22: with --asins-only run-overstock runs the product stage and leaves
\* the brands as they are; with --brands-only it runs the brand rollup
\* and leaves the products as they are; in default mode it runs the
\* product stage, then the brand rollup over the values that stage
\* computed, and ends (status 0) with every brand holding those sums.
\* Violated: when no product has a brand the product stage raises after
\* its commit and the default run ends without the rollup.
C22_ModesRunTheirStages ==
  [][/\ (os_pc = "idle" /\ os_pc' # "idle" /\ os_mode' = "asins_only") =>
          asin' = OsProductStageResult /\ brand' = brand /\ os_pc' = "done"
     /\ (os_pc = "idle" /\ os_pc' # "idle" /\ os_mode' = "brands_only") =>
          /\ asin' = asin /\ os_pc' = "done"
          /\ \A b \in DOMAIN brand :
               brand'[b].stock_overstock_unit = MemberSum(b, "stock_overstock_unit")
     /\ (os_pc = "idle" /\ os_pc' # "idle" /\ os_mode' = "both") =>
          asin' = OsProductStageResult /\ brand' = brand /\ os_pc' = "asin_done"
     /\ (os_pc = "asin_done" /\ os_pc' # os_pc) =>
          /\ asin' = asin /\ os_pc' = "done" /\ os_mode = "both"
          /\ \A b \in DOMAIN brand :
               /\ brand'[b].stock_overstock_unit
                    = MemberSum(b, "stock_overstock_unit")
               /\ brand'[b].stock_overstock_value
                    = MemberSum(b, "stock_overstock_value")
     /\ (os_pc # "idle" /\ os_pc' = "idle") =>
          os_pc = "done" /\ os_exit' = 0 /\ asin' = asin /\ brand' = brand
    ]_vars

\* a default run whose product stage has failed although nothing is wrong
\* with the database: no product has a brand
C22_Witness ==
  /\ os_pc = "asin_failed" /\ os_mode = "both"
  /\ \A a \in DOMAIN asin : asin[a].brand_id = NullId
  /\ forecast_asin = EmptyTable

\* -- division guards ----------------------------------------------------------
\* a stored number: neither NULL nor what a division by zero leaves
IsNumber(x) == x[2] > 0
NumberOrNull(x) == x = NULL \/ IsNumber(x)

\* C23: no input makes the forecast, trailing-metrics or overstock
\* computation divide by zero: every stored forecast value, overstock value
\* and margin percentage is a number; a product the forecast ran for has its
\* 24 rows, all 0 when its anchor sum or its recent units are zero; a
\* product with zero stock units has overstock value 0; a product or brand
\* with zero trailing revenue has margin percentage 0.
C23_NoDivisionByZero ==
  /\ \A r \in DOMAIN forecast_asin : IsNumber(r.value)
  /\ \A r \in DOMAIN forecast_brand : IsNumber(r.value)
  /\ \A a \in Asins :
       /\ NumberOrNull(asin[a].stock_overstock_unit)
       /\ NumberOrNull(asin[a].stock_overstock_value)
       /\ NumberOrNull(asin[a].ltm_brand_ebitda)
       /\ RanFor(a) =>
            /\ HasAll24(a)
            /\ (RIsZero(AnchorSum(a)) \/ RIsZero(NullAsZero(asin[a].l3m_units)))
                 => \A r \in RowsOf(a) : r.value = Zero
       /\ (AsinStageRan /\ RIsZero(asin[a].stock_units))
            => asin[a].stock_overstock_value = Zero
       /\ (asin[a].ltm_brand_ebitda # NULL /\ RIsZero(asin[a].ltm_revenues))
            => asin[a].ltm_brand_ebitda = Zero
  /\ \A b \in Brands :
       /\ NumberOrNull(brand[b].stock_overstock_unit)
       /\ NumberOrNull(brand[b].stock_overstock_value)
       /\ NumberOrNull(brand[b].ltm_brand_ebitda)
       /\ (brand[b].ltm_brand_ebitda # NULL /\ RIsZero(brand[b].ltm_revenues))
            => brand[b].ltm_brand_ebitda = Zero

\* all three programs have run on the zero inputs (the forecast rows are
\* there, the overstock stage has just run): a product with recent
\* sales whose curve has anchor sum zero and trailing revenue zero beside a
\* nonzero margin, and a product with no recent sales, no trailing sales
\* and no stock units
C23_Witness ==
  /\ AsinStageRan
  /\ ltm_exit = 0
  /\ \E a \in Asins :
       /\ RPos(asin[a].l3m_units) /\ Truthy(Dist(a, 8)) /\ RIsZero(AnchorSum(a))
       /\ HasAll24(a) /\ \A r \in RowsOf(a) : r.value = Zero
       /\ asin[a].ltm_revenues = Zero /\ RPos(asin[a].ltm_cm3)
       /\ asin[a].ltm_brand_ebitda = Zero
  /\ \E a \in Asins :
       /\ asin[a].l3m_units = Zero /\ asin[a].ltm_units = Zero
       /\ ~RIsZero(AnchorSum(a))
       /\ HasAll24(a) /\ \A r \in RowsOf(a) : r.value = Zero
       /\ asin[a].stock_units = Zero /\ RPos(asin[a].stock_value)
       /\ asin[a].stock_overstock_unit = Zero
       /\ asin[a].stock_overstock_value = Zero
  /\ \E b \in Brands :
       brand[b].ltm_revenues = Zero /\ brand[b].ltm_brand_ebitda = Zero

\* -- sign of the stored distribution ------------------------------------------
\* C24: every distribution value stored for a seasonality group is
\* non-negative, whatever the signs of the reference-year unit facts.
\* Violated: a month whose summed units are negative (returns) beside a
\* positive year total is stored as a negative share, and a negative year
\* total turns the positive months negative.
C24_DistributionNonNegative ==
  \A g \in Seasonalities, m \in Months :
    seasonality[g][m] # NULL => ~RNeg(seasonality[g][m])

\* a completed run computed a group with a month of net returns (its
\* year total is negative too) and stored negative shares for it
C24_Witness ==
  /\ season_pc = "done"
  /\ \E g \in Seasonalities, m \in Months, n \in Months :
       /\ RNeg(SumSet({f \in GroupUnitFacts(g) : f.mon = m}))
       /\ ~RIsZero(RefYearUnits(g))
       /\ seasonality[g] = ShareCurve(GroupUnitFacts(g))
       /\ RNeg(seasonality[g][n])
       /\ SeqSum(seasonality[g]) = One

\* -- run-seasonality: whole rows, one commit -----------------------------------
\* C25: run-seasonality never leaves a group with a partially written
\* distribution: every step of a run, the failing and the killed ones
\* included, leaves each group's 12 values, in the stored table and in the
\* run's open transaction, either as they were, or as the 12 values of the
\* one computation of this run, or (transaction rolled back) as stored.
C25_NoPartialDistribution ==
  [][ \A g \in Seasonalities :
        /\ \/ seasonality'[g] = seasonality[g]
           \/ seasonality'[g] = ShareCurve(GroupUnitFacts(g))
        /\ \/ season_txn'[g] = season_txn[g]
           \/ season_txn'[g] = seasonality[g]
           \/ season_txn'[g] = ShareCurve(GroupUnitFacts(g)) ]_vars

\* the run failed after it had written the first group, whose stored row
\* is still the whole prior curve, not the computed one
C25_Witness ==
  /\ season_pc = "failed"
  /\ season_idx = 1
  /\ ~RIsZero(RefYearUnits(1))
  /\ seasonality[1] = ExampleCurve
  /\ ShareCurve(GroupUnitFacts(1)) # ExampleCurve
  /\ season_txn = seasonality

\* a step in which the processing of a group raises: the loop is left with
\* groups still to process and the process still to exit
SeasonErrorStep ==
  /\ season_pc = "loop" /\ season_idx < NumSeasonalities
  /\ season_pc' \notin {"loop", "idle"}

\* C30: run-seasonality commits once, at the end of the run: the stored
\* distributions change in no step but the commit that follows the last
\* group, and when the processing of a group raises, the distributions of
\* all groups, those written earlier in the run included, are the ones
\* stored before the run, and the process exits with status 1.
C30_ErrorRollsBackAllGroups ==
  [][ /\ seasonality' # seasonality =>
           SeasonCommits /\ season_idx = NumSeasonalities
      /\ SeasonErrorStep =>
           /\ seasonality' = seasonality
           /\ season_txn' = seasonality
           /\ SeasonExitStatus' = 1 ]_vars

\* the second group raised after the first had been computed and written
\* in the transaction: neither group's stored row has changed
C30_Witness ==
  /\ season_pc = "failed" /\ SeasonExitStatus = 1
  /\ season_idx = 1
  /\ ~RIsZero(RefYearUnits(1)) /\ ~RIsZero(RefYearUnits(NumSeasonalities))
  /\ seasonality[1] = NullCurve
  /\ seasonality[NumSeasonalities] = ExampleCurve
  /\ season_txn = seasonality

\* -- run-overstock inside the forecast's delete/insert window -----------------
\* the product stage of run-overstock runs between the committed DELETE and
\* the INSERT of an all-products run-forecast
OsInForecastWindow ==
  /\ fc_pc = "asin_deleted" /\ fc_filter = NullId
  /\ os_pc = "idle" /\ os_pc' \in {"asin_done", "done"}
  /\ os_mode' \in {"both", "asins_only"}

\* C26: a product stage of run-overstock that runs after the committed
\* delete and before the insert of an all-products run-forecast reads no
\* forecast row: it stores overstock_units = max(0, stock_units) and the
\* whole stock value of every product with positive stock, which is not
\* what it stores once the forecast has completed (see the witness).
C26_OverstockInsideWindow ==
  [][ OsInForecastWindow =>
        \A a \in Asins :
          asin[a].brand_id # NullId =>
            /\ asin'[a].stock_overstock_unit = RMax0(asin[a].stock_units)
            /\ asin'[a].stock_overstock_value =
                 IF RPos(asin[a].stock_units) /\ RPos(asin[a].stock_value)
                 THEN asin[a].stock_value ELSE Zero ]_vars

\* the forecast has completed around an overstock run that read the emptied
\* table: a product holds overstock 500 (value 1000) where a run-overstock
\* started now would store 200 (value 400)
C26_Witness ==
  /\ fc_pc = "done" /\ fc_filter = NullId
  /\ os_pc # "idle"
  /\ \E a \in Asins :
       /\ asin[a].brand_id # NullId
       /\ ForecastF(a) = Num(300)
       /\ asin[a].stock_overstock_unit = Num(500)
       /\ asin[a].stock_overstock_value = Num(1000)
       /\ OverstockUnit(a) = Num(200)
       /\ OverstockValue(a) = Num(400)

\* -- the yearly total of a forecast -------------------------------------------
UnitRowsOf(a) == {r \in RowsOf(a) : r.metric = "Net units"}
\* the sum of the stored distribution of a's group (a missing value is 0)
RECURSIVE CurveSumOver(_, _)
CurveSumOver(a, S) ==
  IF S = {} THEN Zero
  ELSE LET m == CHOOSE x \in S : TRUE
       IN  RAdd(NullAsZero(Dist(a, m)), CurveSumOver(a, S \ {m}))
CurveSum(a) == CurveSumOver(a, Months)

C28_OverstockAtMostStock ==
  /\ \A r \in DOMAIN forecast_asin : ~RNeg(r.value)
  /\ \A r \in DOMAIN forecast_brand : ~RNeg(r.value)
  /\ AsinStageRan =>
       \A a \in Asins :
         asin[a].brand_id # NullId =>
           ~RPos(RSub(asin[a].stock_overstock_unit, asin[a].stock_units))

\* run-overstock has run on the forecast of a product with net returns in
\* the recent window: its ForecastPoints are negative and its overstock is
\* more than its (non-negative) stock
C28_Witness ==
  /\ AsinStageRan
  /\ \E a \in Asins :
       /\ asin[a].brand_id # NullId
       /\ RNeg(asin[a].l3m_units)
       /\ HasAll24(a)
       /\ \E r \in RowsOf(a) : RNeg(r.value)
       /\ RNeg(ForecastF(a))
       /\ ~RNeg(asin[a].stock_units)
       /\ RPos(RSub(asin[a].stock_overstock_unit, asin[a].stock_units))

\* -- products without a brand --------------------------------------------------
\* the outputs as they stand for the products without a brand
BrandlessExcluded ==
  /\ \A a \in Asins :
       (asin[a].brand_id = NullId /\ fc_pc # "idle" /\ fc_filter \in {NullId, a})
         => RowsOf(a) = {}
  /\ \A r \in DOMAIN forecast_brand : r.brand_id # NullId
  /\ OsRollupRan =>
       \A b \in Brands :
         /\ brand[b].stock_overstock_unit =
              SumColumn({a \in Asins : asin[a].brand_id = b},
                        "stock_overstock_unit")
         /\ brand[b].stock_overstock_value =
              SumColumn({a \in Asins : asin[a].brand_id = b},
                        "stock_overstock_value")

\* C29: a product with no brand is left out of every output: from the
\* delete of an all-products run-forecast, or of a single-product run on
\* it, to the end of that run it has no ForecastPoint row (its rows are
\* deleted, none is inserted); no step of run-overstock or run-forecast
\* changes its row, so its overstock_units and overstock_value stay as they
\* were; no brand row carries its forecast, and the brand overstock sums run
\* over the members of each brand only.
C29_BrandlessProductExcluded ==
  [][ /\ BrandlessExcluded'
      /\ \A a \in Asins : asin[a].brand_id = NullId => asin'[a] = asin[a]
    ]_vars

\* run-overstock, then a single-product run-forecast on a product without
\* a brand that had ForecastPoint rows and overstock values: its rows are
\* gone and none was inserted, its overstock values are the old ones (7 and
\* 70), and the brand sum (500) holds its branded companion alone
C29_Witness ==
  /\ last_os_rollup.valid
  /\ fc_pc = "done"
  /\ fc_before.asin = StaleRows
  /\ \E a \in Asins :
       /\ asin[a].brand_id = NullId
       /\ fc_filter = a
       /\ RowsOf(a) # DOMAIN StaleRows
       /\ RowsOf(a) = {}
       /\ asin[a].stock_overstock_unit = Num(7)
       /\ asin[a].stock_overstock_value = Num(70)
  /\ \E b \in Brands : brand[b].stock_overstock_unit = Num(500)
====
